---- MODULE Spec2Model ----
(***************************************************************************)
(* Model of the slide-deck-to-narrated-video pipeline (generate_movie):    *)
(* the orchestrator convert_ppt_to_video.py, the export scripts, the       *)
(* speech smoke test, slide discovery, narration extraction and the video  *)
(* assembler.  Each program is a sequential script; a behaviour of a       *)
(* specification below is one run of one program.                          *)
(***************************************************************************)
EXTENDS Integers, Sequences, FiniteSets, TLC

VARIABLES
    \* ---- orchestrator (convert_ppt_to_video.py) ----
    exists,        \* which prerequisite files exist in the working directory
    pc,            \* position of main(): start, step1, step2, step3, returned, exited
    launched,      \* the commands handed to run_command, in order
    reported,      \* the status messages printed so far (as tags)
    job,           \* per stage: "not_run", "done" (did its job), "not_done"
    retval,        \* value returned by main(): "none", "True", "False"
    exit_code,     \* process exit status: -1 while running, then 0 or 1
    outputs,       \* what the stages left in the working directory: [dirs, videos]
    \* ---- disk and slide discovery ----
    dirs,          \* the files of each candidate slide directory (empty: none / no directory)
    finder,        \* whose find_exported_slides is applied: "assembler" or "exporter"
    find_result,   \* result of find_exported_slides: [dir, files]; dir is "unset" before the call
    \* ---- exporter (utilities/generate_from_slides.py main) ----
    epc,           \* position: begin, keynote, powershell, libreoffice, python, find, video, done, raised
    attempted,     \* the export mechanisms attempted so far: [mech, kind, result]
    removed,       \* the files deleted from exported_slides by the initial clean-up
    slides_dir,    \* main's local slides_dir ("unset" before its first assignment)
    slide_files,   \* main's local slide_files
    manual_shown,  \* export_slides_manual_instruction was called
    clips,         \* number of video clips built
    eret,          \* value returned by main: "none", "False", "None", "filename"
    temp_files,    \* the temporary files of the mechanisms still on disk: "ps1", "pdf"
    \* ---- presentation and narration extraction ----
    presentation,  \* the slides of the document: [title, notes, fails]
    extractor,     \* whose extract_narration_from_slides runs: "assembler" or "exporter"
    xi,            \* number of slides the extraction loop has handled
    narration_dict,\* the narration map built so far: key -> text
    \* ---- assembler (utilities/generate_with_azure_audio.py main) ----
    apc,           \* position: begin, slides, finish, done
    speech_key,    \* SPEECH_KEY is set in the environment
    pause_duration,\* PAUSE_DURATION, in tenths of a second
    narration_notes,\* main's narration map
    asm_files,     \* main's slide_files
    asm_i,         \* number of slide images the loop has handled
    video_clips,   \* the segments built so far: [image, kind, duration, text]
    synth_calls,   \* the calls of generate_audio_file: [image, text, requests, usable,
                   \* audio] in the assembler, [caller, text, voice, key, backend,
                   \* result] in SpecSynth
    errors,        \* the slide images whose processing raised an exception
    concat_bound,  \* main's local name concatenate_videoclips is bound (line 199 ran)
    workdirs,      \* which of audio_clips, slide_images, test_audio exist
    output_video,  \* the written video and how the run ended: [written, clips,
                   \* include_end_slide, end_image, end_warning (why the end slide
                   \* was skipped), write_error (why no video was written)]
    aret,          \* value returned by main: "none", "True", "False"
    \* ---- output file name (utilities/filename_utils.py) ----
    npc,           \* position: idle, start, configured, written, checked
    env_powerpoint_file, \* POWERPOINT_FILE in the environment: [set, value]
    pptx_file,     \* the assembler's module-level pptx_file (line 23)
    output_video_name,   \* the assembler's module-level output_video_name (line 24)
    written_videos,\* the names of the video files written
    video_found,   \* check_output_files found the video it expects
    \* ---- cleanup command (utilities/cleanup.py main) ----
    cpc,           \* position: idle, start, menu, confirm, cleanup, done
    cleanup_disk,  \* per intermediate directory: "absent", "empty" (no bytes), "files"
    initial_disk,  \* cleanup_disk when the command started
    invalid_choices, \* number of menu inputs rejected so far
    choice,        \* the menu input that ended the menu loop, as typed
    custom_answers,\* the answers typed to "Remove <dir>/?", per directory asked
    dirs_to_remove,\* main's dirs_to_remove
    confirm,       \* the final prompt: [asked, answer]
    \* ---- frames of the video (generate_with_azure_audio.py main) ----
    fpc,           \* position: idle, slide, end, done
    slide_img,     \* size <<width, height>> of the exported slide image
    end_img,       \* size of media/end-slide.png
    processed,     \* the processed slide: [canvas, pasted, offset]
    frame_sizes    \* the frame size of each segment made, in order

orchVars == <<exists, pc, launched, reported, job, retval, exit_code, outputs>>

diskVars == <<dirs, finder, find_result>>

expVars == <<epc, attempted, removed, slides_dir, slide_files, manual_shown, clips, eret,
            temp_files>>

docVars == <<presentation, extractor, xi, narration_dict>>

asmVars == <<apc, speech_key, pause_duration, narration_notes, asm_files, asm_i, video_clips,
             synth_calls, errors, concat_bound, workdirs, output_video, aret>>

nameVars == <<npc, env_powerpoint_file, pptx_file, output_video_name, written_videos,
              video_found>>

cleanupVars == <<cpc, cleanup_disk, initial_disk, invalid_choices, choice, custom_answers,
                 dirs_to_remove, confirm>>

frameVars == <<fpc, slide_img, end_img, processed, frame_sizes>>

toolVars == <<nameVars, cleanupVars, frameVars>>

vars == <<orchVars, diskVars, expVars, docVars, asmVars, toolVars>>

\* ------------------------------------------------------------------------
\* Files the assembler leaves behind (utilities/filename_utils.py and the
\* end of generate_with_azure_audio.py main)
\* ------------------------------------------------------------------------

\* the largest index of character c in s, 0 when it does not occur
last_index(s, c) ==
    IF \E k \in 1..Len(s) : s[k] = c
    THEN CHOOSE k \in 1..Len(s) : s[k] = c /\ \A j \in (k + 1)..Len(s) : s[j] # c
    ELSE 0

\* Path(p).name: the last component of the path
path_name(path) == SubSeq(path, last_index(path, "/") + 1, Len(path))

\* Path(p).stem: the name without its last suffix; a dot that begins or ends
\* the name starts no suffix
path_stem(path) ==
    LET name == path_name(path)
        i    == last_index(name, ".")
    IN IF 1 < i /\ i < Len(name) THEN SubSeq(name, 1, i - 1) ELSE name

dot_mp4 == <<".", "m", "p", "4">>

default_powerpoint_file ==
    <<"c", "o", "n", "t", "e", "n", "t", "_", "m", "a", "i", "n", "t", "e", "n", "a",
      "n", "c", "e", "_", "p", "r", "o", "c", "e", "s", "s", ".", "p", "p", "t", "x">>

\* generate_output_filename(pptx_file, suffix=""), line 32
generate_output_filename(file, suffix) == path_stem(file) \o suffix \o dot_mp4

\* get_powerpoint_file(), line 38: POWERPOINT_FILE or the default
get_powerpoint_file(env) == IF env.set THEN env.value ELSE default_powerpoint_file

\* get_output_video_name(), lines 42-43: the suffix argument is left out
get_output_video_name(env) == generate_output_filename(get_powerpoint_file(env), <<>>)

\* convert_ppt_to_video.py, check_output_files, line 114: the video the
\* orchestrator looks for
expected_video ==
    <<"c", "o", "d", "e", "_", "m", "a", "i", "n", "t", "e", "n", "a", "n", "c", "e",
      "_", "p", "r", "o", "c", "e", "s", "s", "_", "W", "I", "T", "H", "_", "A", "Z",
      "U", "R", "E", "_", "A", "U", "D", "I", "O", ".", "m", "p", "4">>

\* a variant with the commented-out removal of audio_clips switched on
cleanup_intermediate_with_audio(existing) ==
    existing \ {"slide_images", "audio_clips", "test_audio"}

\* main(), lines 307-338: after the video is written, slide_images and
\* test_audio are emptied and removed when they exist; the removal of
\* audio_clips is commented out (lines 319-327)
cleanup_intermediate(existing) ==
    existing \ {"slide_images", "test_audio"}

\* ------------------------------------------------------------------------
\* Orchestrator: convert_ppt_to_video.py
\* ------------------------------------------------------------------------

PptxFile == "content_maintenance_process.pptx"
EnvFile == ".env"
ExportScript == "generate_from_slides.py"
SmokeScript == "generate_audio.py"
AssemblyScript == "generate_with_azure_audio.py"

\* the files check_prerequisites looks for, in the order it looks for them
required_files == <<PptxFile, EnvFile, ExportScript, SmokeScript, AssemblyScript>>

RequiredSet == {required_files[k] : k \in 1..Len(required_files)}

Stages == {"export", "smoke", "assembly"}

\* a variant that does not look for the credential file
check_prerequisites_without_env(ex) ==
    IF \E k \in 1..Len(required_files) : required_files[k] # EnvFile /\ ~ex[required_files[k]]
    THEN required_files[CHOOSE k \in 1..Len(required_files) :
                            /\ required_files[k] # EnvFile /\ ~ex[required_files[k]]
                            /\ \A j \in 1..(k-1) : required_files[j] = EnvFile \/ ex[required_files[j]]]
    ELSE "none"

\* check_prerequisites: the first file of required_files that does not
\* exist, or "none" when all exist (the function returns False at the first
\* missing file after printing it, True after the last check)
check_prerequisites(ex) ==
    IF \E k \in 1..Len(required_files) : ~ex[required_files[k]]
    THEN required_files[CHOOSE k \in 1..Len(required_files) :
                            /\ ~ex[required_files[k]]
                            /\ \A j \in 1..(k-1) : ex[required_files[j]]]
    ELSE "none"

\* run_command: True exactly when the subprocess could be started and its
\* return code is 0; any exception while starting it is caught and gives False
run_command(returncode, raised) == (~raised) /\ returncode = 0

\* Exit status of the export script (generate_from_slides.py, module level).
\*   loaded : Presentation(pptx_file) did not raise
\*   found  : find_exported_slides() returned a directory
\*   wrote  : the slides-only video was encoded without an exception
\* An uncaught exception ends the interpreter with status 1; exit() with no
\* argument and falling off the end of the script both give status 0.
export_script_status(loaded, found, wrote) ==
    IF ~loaded THEN 1
    ELSE IF ~found THEN 0
    ELSE IF ~wrote THEN 1
    ELSE 0

\* The export mechanisms the module-level export script attempts: PowerShell
\* first, LibreOffice only when PowerShell returned False.
export_script_attempts(ps_ok) ==
    IF ps_ok THEN <<"powershell">> ELSE <<"powershell", "libreoffice">>

\* Exit status of the smoke-test script (generate_audio.py __main__): the
\* result of test_audio_generation() is discarded, so the status is 0 unless
\* the module could not be imported / started.
smoke_script_status(started, test_ok) ==
    IF ~started THEN 1 ELSE 0

\* Exit status of the assembly script (generate_with_azure_audio.py __main__):
\* main() catches every exception and its boolean result is discarded; only a
\* failure at module level (imports, float(PAUSE_DURATION)) gives status 1.
assembly_script_status(started, main_ok) ==
    IF ~started THEN 1 ELSE 0

\* What the export script leaves in the working directory: the export
\* functions create exported_slides (lines 11 and 33), and the loop over the
\* images found creates slide_images (line 194).
export_script_outputs(before, ran, found) ==
    IF ~ran THEN before
    ELSE [before EXCEPT !.dirs = @ \cup {"exported_slides"}
                                   \cup (IF found THEN {"slide_images"} ELSE {})]

\* What the smoke test leaves: test_audio (generate_audio.py line 71)
smoke_script_outputs(before, ran) ==
    IF ~ran THEN before ELSE [before EXCEPT !.dirs = @ \cup {"test_audio"}]

\* What the assembly script leaves.  reached: main() got to lines 125-126,
\* which create audio_clips and slide_images; main_ok: the video was
\* written under the name of line 24 and the cleanup of lines 307-338 ran.
assembly_script_outputs(before, ran, reached, main_ok, env) ==
    IF ~ran \/ ~reached THEN before
    ELSE IF ~main_ok
    THEN [before EXCEPT !.dirs = @ \cup {"audio_clips", "slide_images"}]
    ELSE [dirs   |-> cleanup_intermediate(before.dirs \cup {"audio_clips", "slide_images"}),
          videos |-> before.videos \cup {get_output_video_name(env)}]

\* the documents the assembler may be configured for: POWERPOINT_FILE unset,
\* or naming a document whose stem is the video name the orchestrator expects
AssemblyDocuments ==
    {[set |-> FALSE, value |-> <<>>],
     [set |-> TRUE, value |-> SubSeq(expected_video, 1, Len(expected_video) - 4)
                                  \o <<".", "p", "p", "t", "x">>]}

\* check_output_files, lines 109-133: all of expected_files exist
expected_dirs == {"exported_slides", "audio_clips", "slide_images"}

check_output_files(on_disk) ==
    /\ expected_video \in on_disk.videos
    /\ expected_dirs \subseteq on_disk.dirs

\* the variables of the other programs, which a run of the orchestrator
\* leaves alone
OrchOnly == UNCHANGED <<diskVars, expVars, docVars, asmVars, toolVars>>

DiskIdle ==
    /\ dirs = [d \in {"none"} |-> {}]
    /\ finder = "none"
    /\ find_result = [dir |-> "unset", files |-> <<>>]

ExpIdle ==
    /\ epc = "idle"
    /\ attempted = <<>>
    /\ removed = {}
    /\ slides_dir = "unset"
    /\ slide_files = <<>>
    /\ manual_shown = FALSE
    /\ clips = 0
    /\ eret = "none"
    /\ temp_files = {}

DocIdle ==
    /\ presentation = <<>>
    /\ extractor = "none"
    /\ xi = 0
    /\ narration_dict = <<>>

AsmIdle ==
    /\ apc = "idle"
    /\ speech_key = FALSE
    /\ pause_duration = 0
    /\ narration_notes = <<>>
    /\ asm_files = <<>>
    /\ asm_i = 0
    /\ video_clips = <<>>
    /\ synth_calls = <<>>
    /\ errors = {}
    /\ concat_bound = FALSE
    /\ workdirs = {}
    /\ output_video = [written |-> FALSE, clips |-> <<>>, include_end_slide |-> FALSE,
                       end_image |-> FALSE, end_warning |-> "none", write_error |-> "none"]
    /\ aret = "none"

NameIdle ==
    /\ npc = "idle"
    /\ env_powerpoint_file = [set |-> FALSE, value |-> <<>>]
    /\ pptx_file = <<>>
    /\ output_video_name = <<>>
    /\ written_videos = {}
    /\ video_found = FALSE

CleanupIdle ==
    /\ cpc = "idle"
    /\ cleanup_disk = [d \in {"none"} |-> "absent"]
    /\ initial_disk = cleanup_disk
    /\ invalid_choices = 0
    /\ choice = <<>>
    /\ custom_answers = <<>>
    /\ dirs_to_remove = <<>>
    /\ confirm = [asked |-> FALSE, answer |-> <<>>]

FrameIdle ==
    /\ fpc = "idle"
    /\ slide_img = <<0, 0>>
    /\ end_img = <<0, 0>>
    /\ processed = [canvas |-> <<0, 0>>, pasted |-> <<0, 0>>, offset |-> <<0, 0>>]
    /\ frame_sizes = <<>>

ToolIdle ==
    /\ NameIdle
    /\ CleanupIdle
    /\ FrameIdle

OrchIdle ==
    /\ exists = [f \in {"none"} |-> FALSE]
    /\ pc = "idle"
    /\ launched = <<>>
    /\ reported = {}
    /\ job = [s \in {"none"} |-> "not_run"]
    /\ retval = "none"
    /\ exit_code = -1
    /\ outputs = [dirs |-> {}, videos |-> {}]

\* the working directory at the start: fresh, or as an earlier successful run
\* left it, for either of the documents
InitialOutputs ==
    {[dirs |-> {}, videos |-> {}]} \cup
    {[dirs |-> {"exported_slides", "audio_clips"}, videos |-> {get_output_video_name(env)}] :
        env \in AssemblyDocuments}

OrchInit ==
    /\ ToolIdle
    /\ DiskIdle
    /\ ExpIdle
    /\ DocIdle
    /\ AsmIdle
    /\ exists \in [RequiredSet -> BOOLEAN]
    /\ pc = "start"
    /\ launched = <<>>
    /\ reported = {}
    /\ job = [s \in Stages |-> "not_run"]
    /\ retval = "none"
    /\ exit_code = -1
    /\ outputs \in InitialOutputs

\* main(), step 0: check_prerequisites
CheckPrerequisites ==
    /\ pc = "start"
    /\ LET missing == check_prerequisites(exists) IN
       IF missing # "none"
       THEN /\ reported' = reported \cup {<<"missing", missing>>, <<"prerequisites_not_met">>}
            /\ retval' = "False"
            /\ pc' = "returned"
       ELSE /\ reported' = reported \cup {<<"prerequisites_met">>}
            /\ retval' = retval
            /\ pc' = "step1"
    /\ UNCHANGED <<exists, launched, job, exit_code, outputs>>
    /\ OrchOnly

\* main(), step 1: run_command("generate_from_slides.py", ...)
RunExportStage ==
    /\ pc = "step1"
    /\ \E raised \in BOOLEAN, loaded \in BOOLEAN, ps_ok \in BOOLEAN, lo_ok \in BOOLEAN,
          found \in BOOLEAN, wrote \in BOOLEAN :
         LET status  == export_script_status(loaded, found, wrote)
             success == run_command(status, raised)
             ran     == ~raised /\ loaded
             manual  == ran /\ ~found
             tried   == IF ran THEN {<<"tried", export_script_attempts(ps_ok)[k]>> :
                                        k \in 1..Len(export_script_attempts(ps_ok))}
                        ELSE {}
             allfail == IF ran /\ ~ps_ok /\ ~lo_ok THEN {<<"all_mechanisms_failed">>} ELSE {}
             shown   == IF manual THEN {<<"manual_instructions">>} ELSE {}
         IN
         /\ launched' = Append(launched, ExportScript)
         /\ outputs' = export_script_outputs(outputs, ran, found)
         /\ job' = [job EXCEPT !["export"] = IF ran /\ found /\ wrote THEN "done" ELSE "not_done"]
         /\ IF success
            THEN /\ reported' = reported \cup tried \cup allfail \cup shown
                 /\ retval' = retval
                 /\ pc' = "step2"
            ELSE /\ reported' = reported \cup tried \cup allfail \cup shown
                                  \cup {<<"failed", "export">>}
                 /\ retval' = "False"
                 /\ pc' = "returned"
    /\ UNCHANGED <<exists, exit_code>>
    /\ OrchOnly

\* main(), step 2: run_command("generate_audio.py", ...)
RunSmokeStage ==
    /\ pc = "step2"
    /\ \E raised \in BOOLEAN, started \in BOOLEAN, test_ok \in BOOLEAN :
         LET status  == smoke_script_status(started, test_ok)
             success == run_command(status, raised)
         IN
         /\ launched' = Append(launched, SmokeScript)
         /\ outputs' = smoke_script_outputs(outputs, ~raised /\ started)
         /\ job' = [job EXCEPT !["smoke"] =
                       IF ~raised /\ started /\ test_ok THEN "done" ELSE "not_done"]
         /\ IF success
            THEN /\ reported' = reported
                 /\ retval' = retval
                 /\ pc' = "step3"
            ELSE /\ reported' = reported \cup {<<"failed", "smoke">>}
                 /\ retval' = "False"
                 /\ pc' = "returned"
    /\ UNCHANGED <<exists, exit_code>>
    /\ OrchOnly

\* main(), steps 3 and 4: run_command("generate_with_azure_audio.py", ...),
\* then check_output_files (whose result only adds a warning) and return True
RunAssemblyStage ==
    /\ pc = "step3"
    /\ \E raised \in BOOLEAN, started \in BOOLEAN, main_ok \in BOOLEAN, reached \in BOOLEAN,
          env \in AssemblyDocuments :
         LET status    == assembly_script_status(started, main_ok)
             success   == run_command(status, raised)
             all_found == check_output_files(outputs')
         IN
         /\ main_ok => reached
         /\ (raised \/ ~started) => (~main_ok /\ ~reached /\ ~env.set)
         /\ launched' = Append(launched, AssemblyScript)
         /\ outputs' = assembly_script_outputs(outputs, ~raised /\ started, reached, main_ok, env)
         /\ job' = [job EXCEPT !["assembly"] =
                       IF ~raised /\ started /\ main_ok THEN "done" ELSE "not_done"]
         /\ IF success
            THEN /\ reported' = reported \cup {<<"success">>}
                                  \cup (IF all_found THEN {} ELSE {<<"outputs_missing">>})
                 /\ retval' = "True"
                 /\ pc' = "returned"
            ELSE /\ reported' = reported \cup {<<"failed", "assembly">>}
                 /\ retval' = "False"
                 /\ pc' = "returned"
    /\ UNCHANGED <<exists, exit_code>>
    /\ OrchOnly

\* __main__: exit_code = 0 if success else 1
ExitNormally ==
    /\ pc = "returned"
    /\ exit_code' = IF retval = "True" THEN 0 ELSE 1
    /\ pc' = "exited"
    /\ UNCHANGED <<exists, launched, reported, job, retval, outputs>>
    /\ OrchOnly

\* __main__: KeyboardInterrupt or any other exception escaping main()
ExitOnException ==
    /\ pc \in {"start", "step1", "step2", "step3"}
    /\ \E kind \in {"interrupted", "unexpected_error"} :
         reported' = reported \cup {<<kind>>}
    /\ exit_code' = 1
    /\ pc' = "exited"
    /\ UNCHANGED <<exists, launched, job, retval, outputs>>
    /\ OrchOnly

OrchNext ==
    \/ CheckPrerequisites
    \/ RunExportStage
    \/ RunSmokeStage
    \/ RunAssemblyStage
    \/ ExitNormally
    \/ ExitOnException

\* ------------------------------------------------------------------------
\* File names and slide discovery (find_exported_slides)
\* ------------------------------------------------------------------------

\* A file name is the sequence of its characters.
slide_0_png == <<"s", "l", "i", "d", "e", "_", "0", ".", "p", "n", "g">>

slide_1_png == <<"s", "l", "i", "d", "e", "_", "1", ".", "p", "n", "g">>

slide_2_png == <<"s", "l", "i", "d", "e", "_", "2", ".", "p", "n", "g">>

slide_10_png == <<"s", "l", "i", "d", "e", "_", "1", "0", ".", "p", "n", "g">>

Slide3_PNG == <<"S", "l", "i", "d", "e", "3", ".", "P", "N", "G">>

cover_png == <<"c", "o", "v", "e", "r", ".", "p", "n", "g">>

notes7_txt == <<"n", "o", "t", "e", "s", "7", ".", "t", "x", "t">>

Digits == <<"0", "1", "2", "3", "4", "5", "6", "7", "8", "9">>

IsDigit(c) == \E d \in 1..10 : Digits[d] = c

DigitVal(c) == (CHOOSE d \in 1..10 : Digits[d] = c) - 1

UpperCase == <<"A", "B", "C", "D", "E", "F", "G", "H", "I", "J", "K", "L", "M",
               "N", "O", "P", "Q", "R", "S", "T", "U", "V", "W", "X", "Y", "Z">>

LowerCase == <<"a", "b", "c", "d", "e", "f", "g", "h", "i", "j", "k", "l", "m",
               "n", "o", "p", "q", "r", "s", "t", "u", "v", "w", "x", "y", "z">>

\* str.lower()
lower(name) ==
    [k \in 1..Len(name) |->
        IF \E u \in 1..26 : UpperCase[u] = name[k]
        THEN LowerCase[CHOOSE u \in 1..26 : UpperCase[u] = name[k]]
        ELSE name[k]]

\* str.endswith / str.startswith
endswith(name, suffix) ==
    /\ Len(suffix) <= Len(name)
    /\ \A k \in 1..Len(suffix) : name[Len(name) - Len(suffix) + k] = suffix[k]

startswith(name, prefix) ==
    /\ Len(prefix) <= Len(name)
    /\ \A k \in 1..Len(prefix) : name[k] = prefix[k]

dot_png == <<".", "p", "n", "g">>

slide_prefix == <<"s", "l", "i", "d", "e">>

\* int() of a non-empty string of decimal digits
RECURSIVE int(_)
int(ds) ==
    IF Len(ds) = 0 THEN 0
    ELSE 10 * int(SubSeq(ds, 1, Len(ds) - 1)) + DigitVal(ds[Len(ds)])

\* re.findall(r'\d+', filename)[0]: the first maximal run of digits, or the
\* empty sequence when the name has no digit
first_number(filename) ==
    IF \E k \in 1..Len(filename) : IsDigit(filename[k])
    THEN LET b == CHOOSE k \in 1..Len(filename) :
                     /\ IsDigit(filename[k])
                     /\ \A j \in 1..(k-1) : ~IsDigit(filename[j])
             e == CHOOSE k \in b..Len(filename) :
                     /\ \A j \in b..k : IsDigit(filename[j])
                     /\ (k = Len(filename) \/ ~IsDigit(filename[k+1]))
         IN SubSeq(filename, b, e)
    ELSE <<>>

\* a variant that sorts by the first digit only
natural_sort_key_first_digit(filename) ==
    IF first_number(filename) # <<>> THEN DigitVal(first_number(filename)[1]) ELSE 0

\* natural_sort_key: the first number found, 0 when there is none
natural_sort_key(filename) ==
    IF first_number(filename) # <<>> THEN int(first_number(filename)) ELSE 0

\* the candidate directories, in the order they are searched
possible_dirs == <<"uploaded_slides", "exported_slides", "manual_slides", "slide_exports", "slides">>

DirSet == {possible_dirs[k] : k \in 1..Len(possible_dirs)}

\* The file filter of find_exported_slides.  The assembler's version keeps
\* every name ending in .png (case-insensitively); the exporter's version
\* also requires the name to begin with "slide" (case-insensitively).
is_slide_png(variant, f) ==
    /\ endswith(lower(f), dot_png)
    /\ (variant = "exporter" => startswith(lower(f), slide_prefix))

\* every file name that occurs in a run
AllNames == {slide_0_png, slide_1_png, slide_2_png, slide_10_png, Slide3_PNG, cover_png, notes7_txt}

\* the filter and the sort key of each name, computed once
SlidePngs == [v \in {"assembler", "exporter"} |-> {f \in AllNames : is_slide_png(v, f)}]

SortKey == [f \in AllNames |-> natural_sort_key(f)]

\* list.sort(key=...): a stable sort, modelled as insertion of each element
\* after the last element whose key is not larger
RECURSIVE insert_sorted(_, _)
insert_sorted(sorted, f) ==
    IF sorted = <<>> THEN <<f>>
    ELSE IF SortKey[sorted[Len(sorted)]] <= SortKey[f]
         THEN Append(sorted, f)
         ELSE Append(insert_sorted(SubSeq(sorted, 1, Len(sorted) - 1), f), sorted[Len(sorted)])

RECURSIVE sort_by_key(_)
sort_by_key(files) ==
    IF files = <<>> THEN <<>>
    ELSE insert_sorted(sort_by_key(SubSeq(files, 1, Len(files) - 1)), files[Len(files)])

\* the list comprehension over os.listdir(dir_name): keeps the listing order
RECURSIVE filter_listing(_, _)
filter_listing(variant, listing) ==
    IF listing = <<>> THEN <<>>
    ELSE LET rest == filter_listing(variant, SubSeq(listing, 1, Len(listing) - 1))
             f    == listing[Len(listing)]
         IN IF f \in SlidePngs[variant] THEN Append(rest, f) ELSE rest

\* a variant that falls back to the default export directory
find_exported_slides_default_dir(variant, ls) ==
    IF \E k \in 1..Len(possible_dirs) : filter_listing(variant, ls[possible_dirs[k]]) # <<>>
    THEN LET k == CHOOSE k \in 1..Len(possible_dirs) :
                     /\ filter_listing(variant, ls[possible_dirs[k]]) # <<>>
                     /\ \A j \in 1..(k-1) : filter_listing(variant, ls[possible_dirs[j]]) = <<>>
         IN [dir |-> possible_dirs[k],
             files |-> sort_by_key(filter_listing(variant, ls[possible_dirs[k]]))]
    ELSE [dir |-> "exported_slides", files |-> <<>>]

\* find_exported_slides: ls maps each directory to its listing (the empty
\* listing for a directory that does not exist).  Returns the directory and
\* the sorted file list, or "None" and the empty list.
find_exported_slides(variant, ls) ==
    IF \E k \in 1..Len(possible_dirs) : filter_listing(variant, ls[possible_dirs[k]]) # <<>>
    THEN LET k == CHOOSE k \in 1..Len(possible_dirs) :
                     /\ filter_listing(variant, ls[possible_dirs[k]]) # <<>>
                     /\ \A j \in 1..(k-1) : filter_listing(variant, ls[possible_dirs[j]]) = <<>>
         IN [dir |-> possible_dirs[k],
             files |-> sort_by_key(filter_listing(variant, ls[possible_dirs[k]]))]
    ELSE [dir |-> "None", files |-> <<>>]

\* os.listdir returns the names of a directory in arbitrary order
Perms(S) == {p \in [1..Cardinality(S) -> S] : \A a, b \in 1..Cardinality(S) : p[a] = p[b] => a = b}

Listings(fs) ==
    {[uploaded_slides |-> l1, exported_slides |-> l2, manual_slides |-> l3,
      slide_exports |-> l4, slides |-> l5] :
        l1 \in Perms(fs["uploaded_slides"]), l2 \in Perms(fs["exported_slides"]),
        l3 \in Perms(fs["manual_slides"]), l4 \in Perms(fs["slide_exports"]),
        l5 \in Perms(fs["slides"])}

\* the sets of at most n elements of S
RECURSIVE SetsUpTo(_, _)
SetsUpTo(S, n) ==
    IF n = 0 THEN {{}}
    ELSE LET smaller == SetsUpTo(S, n - 1) IN
         smaller \cup {t \cup {x} : t \in smaller, x \in S}

\* the directory contents with at most n files in total, names taken from pool
DiskStates(pool, n) ==
    {[d \in DirSet |-> {f \in pool : <<d, f>> \in placed}] :
        placed \in SetsUpTo(DirSet \X pool, n)}

\* ------------------------------------------------------------------------
\* A call of find_exported_slides on an arbitrary disk
\* ------------------------------------------------------------------------

\* the file names that may be on disk before a run
FilePool == {slide_1_png, slide_2_png, slide_10_png, Slide3_PNG, cover_png, notes7_txt}

\* at most this many files on disk when find_exported_slides is called
MaxFindFiles == 3

FindInit ==
    /\ OrchIdle
    /\ ToolIdle
    /\ ExpIdle
    /\ DocIdle
    /\ AsmIdle
    /\ dirs \in DiskStates(FilePool, MaxFindFiles)
    /\ finder \in {"assembler", "exporter"}
    /\ find_result = [dir |-> "unset", files |-> <<>>]

\* the call: os.listdir gives each directory's names in some order
FindExportedSlides ==
    /\ find_result.dir = "unset"
    /\ \E r \in {find_exported_slides(finder, ls) : ls \in Listings(dirs)} : find_result' = r
    /\ UNCHANGED <<dirs, finder, orchVars, expVars, docVars, asmVars, toolVars>>

FindNext == FindExportedSlides

SpecFind == FindInit /\ [][FindNext]_vars

\* ------------------------------------------------------------------------
\* Exporter: utilities/generate_from_slides.py, main()
\* ------------------------------------------------------------------------

\* the file names that may be on disk before the exporter runs
ExpPool == {slide_1_png, Slide3_PNG, cover_png}

\* at most this many files on disk when the exporter starts
MaxExpFiles == 2

\* a mechanism exports at most this many slides
MaxExported == 1

\* How an external command ends: return code 0, non-zero return code,
\* subprocess.TimeoutExpired, or another exception (command not found)
Outcomes == {"rc0", "nonzero", "timeout", "error"}

MechanismOrder == <<"keynote", "powershell", "libreoffice", "python">>

\* str(n) for 0 <= n <= 99
str(n) == IF n < 10 THEN <<Digits[n + 1]>> ELSE <<Digits[(n \div 10) + 1], Digits[(n % 10) + 1]>>

\* f"slide_{n}.png"
slide_n_png(n) == <<"s", "l", "i", "d", "e", "_">> \o str(n) \o dot_png

is_png(f) == endswith(lower(f), dot_png)

\* the check of the Keynote mechanism: names starting with slide_ and ending
\* with .png, compared case-sensitively
is_export_name(f) == startswith(f, <<"s", "l", "i", "d", "e", "_">>) /\ endswith(f, dot_png)

\* export_slides_as_images_macos_keynote: the osascript outcome and the
\* content of the output directory afterwards
export_slides_as_images_macos_keynote(outcome, out_files) ==
    IF outcome = "rc0"
    THEN \E f \in out_files : is_export_name(f)
    ELSE FALSE

\* a variant that ignores the return code of powershell.exe
export_slides_as_images_powershell_ignoring_status(outcome) == outcome \in {"rc0", "nonzero"}

\* export_slides_as_images_powershell
export_slides_as_images_powershell(outcome) == outcome = "rc0"

\* export_slides_as_images_libreoffice: the outcomes of the enhanced PDF
\* conversion, of the simple PDF conversion (run only when the enhanced one
\* returned non-zero), whether the PDF exists afterwards, and the outcome of
\* the ImageMagick conversion.  kind is how the mechanism ended.
export_slides_as_images_libreoffice(pdf1, pdf2, pdf_created, conv) ==
    IF pdf1 \in {"timeout", "error"} THEN [kind |-> pdf1, result |-> FALSE, converted |-> FALSE]
    ELSE IF pdf1 = "nonzero" /\ pdf2 \in {"timeout", "error"}
         THEN [kind |-> pdf2, result |-> FALSE, converted |-> FALSE]
    ELSE IF pdf1 = "nonzero" /\ pdf2 = "nonzero"
         THEN [kind |-> "nonzero", result |-> FALSE, converted |-> FALSE]
    ELSE IF ~pdf_created THEN [kind |-> "no_pdf", result |-> FALSE, converted |-> FALSE]
    ELSE IF conv \in {"timeout", "error"} THEN [kind |-> conv, result |-> FALSE, converted |-> conv = "timeout"]
    ELSE IF conv = "rc0" THEN [kind |-> "rc0", result |-> TRUE, converted |-> TRUE]
    ELSE [kind |-> "nonzero", result |-> FALSE, converted |-> TRUE]

\* export_slides_as_images_powershell, lines 160-181: the script is written
\* to a NamedTemporaryFile(delete=False) and unlinked on line 170, after
\* subprocess.run has returned; when subprocess.run raises (timeout, or the
\* program cannot be launched) control goes to the except clause, which only
\* prints and returns False
powershell_script_left(outcome) == outcome \in {"timeout", "error"}

\* export_slides_as_images_libreoffice, lines 50-92: the PDF is on disk when
\* a conversion made it (pdf_created); it is removed after the ImageMagick
\* call (lines 72-75) and in the except clause (lines 89-91); the returns on
\* lines 47 (both conversions non-zero) and 53 (no PDF) remove nothing
libreoffice_pdf_left(pdf1, pdf2, pdf_created, conv) ==
    LET both_nonzero == pdf1 = "nonzero" /\ pdf2 = "nonzero"
        pdf_raised   == pdf1 \in {"timeout", "error"}
                           \/ (pdf1 = "nonzero" /\ pdf2 \in {"timeout", "error"})
        on_disk      == pdf_created /\ ~both_nonzero
        to_convert   == ~pdf_raised /\ ~both_nonzero /\ pdf_created
        cleaned      == pdf_raised \/ to_convert
    IN on_disk /\ ~cleaned

\* export_slides_python_fallback: False only when the presentation cannot be
\* loaded; a slide that cannot be drawn is skipped
export_slides_python_fallback(load_ok) == load_ok

ExpInit ==
    /\ OrchIdle
    /\ ToolIdle
    /\ DocIdle
    /\ AsmIdle
    /\ dirs \in DiskStates(ExpPool, MaxExpFiles)
    /\ finder = "exporter"
    /\ find_result = [dir |-> "unset", files |-> <<>>]
    /\ epc = "begin"
    /\ attempted = <<>>
    /\ removed = {}
    /\ slides_dir = "unset"
    /\ slide_files = <<>>
    /\ manual_shown = FALSE
    /\ clips = 0
    /\ eret = "none"
    /\ temp_files = {}

ExpOnly == UNCHANGED <<orchVars, finder, find_result, docVars, asmVars, toolVars>>

\* main(), lines 486-517: load the presentation, then either take the
\* pre-supplied images of uploaded_slides or clean exported_slides
ExpBegin ==
    /\ epc = "begin"
    /\ \E loaded \in BOOLEAN :
         IF ~loaded
         THEN /\ epc' = "raised"
              /\ UNCHANGED <<dirs, removed, slides_dir, slide_files>>
         ELSE \E listing \in Perms(dirs["uploaded_slides"]) :
                LET uploaded_pngs == filter_listing("assembler", listing) IN
                IF uploaded_pngs # <<>>
                THEN /\ slides_dir' = "uploaded_slides"
                     /\ slide_files' = uploaded_pngs
                     /\ epc' = "find"
                     /\ UNCHANGED <<dirs, removed>>
                ELSE LET old_files == {f \in dirs["exported_slides"] : is_png(f)} IN
                     /\ removed' = old_files
                     /\ dirs' = [dirs EXCEPT !["exported_slides"] = @ \ old_files]
                     /\ epc' = "keynote"
                     /\ UNCHANGED <<slides_dir, slide_files>>
    /\ UNCHANGED <<attempted, manual_shown, clips, eret, temp_files>>
    /\ ExpOnly

\* the files slide_1.png .. slide_k.png / slide_0.png .. slide_(k-1).png
one_based(k) == {slide_n_png(n) : n \in 1..k}

zero_based(k) == {slide_n_png(n) : n \in 0..(k-1)}

\* main(), line 523
TryKeynote ==
    /\ epc = "keynote"
    /\ \E outcome \in Outcomes, k \in 0..MaxExported :
         /\ outcome = "error" => k = 0
         /\ LET out_files == dirs["exported_slides"] \cup one_based(k)
                success   == export_slides_as_images_macos_keynote(outcome, out_files)
            IN /\ dirs' = [dirs EXCEPT !["exported_slides"] = out_files]
               /\ attempted' = Append(attempted, [mech |-> "keynote", kind |-> outcome, result |-> success])
               /\ epc' = IF success THEN "find" ELSE "powershell"
    /\ UNCHANGED <<removed, slides_dir, slide_files, manual_shown, clips, eret, temp_files>>
    /\ ExpOnly

\* main(), lines 526-528
TryPowerShell ==
    /\ epc = "powershell"
    /\ \E outcome \in Outcomes, k \in 0..MaxExported :
         /\ outcome = "error" => k = 0
         /\ LET success == export_slides_as_images_powershell(outcome)
            IN /\ dirs' = [dirs EXCEPT !["exported_slides"] = @ \cup one_based(k)]
               /\ attempted' = Append(attempted, [mech |-> "powershell", kind |-> outcome, result |-> success])
               /\ epc' = IF success THEN "find" ELSE "libreoffice"
               /\ temp_files' = IF powershell_script_left(outcome)
                                THEN temp_files \cup {"ps1"} ELSE temp_files
    /\ UNCHANGED <<removed, slides_dir, slide_files, manual_shown, clips, eret>>
    /\ ExpOnly

\* main(), lines 531-533
TryLibreOffice ==
    /\ epc = "libreoffice"
    /\ \E pdf1 \in Outcomes, pdf2 \in Outcomes, pdf_created \in BOOLEAN, conv \in Outcomes,
          k \in 0..MaxExported :
       \E r \in {export_slides_as_images_libreoffice(pdf1, pdf2, pdf_created, conv)} :
         /\ ~r.converted => k = 0
         /\ dirs' = [dirs EXCEPT !["exported_slides"] = @ \cup zero_based(k)]
         /\ attempted' = Append(attempted, [mech |-> "libreoffice", kind |-> r.kind, result |-> r.result])
         /\ epc' = IF r.result THEN "find" ELSE "python"
         /\ temp_files' = IF libreoffice_pdf_left(pdf1, pdf2, pdf_created, conv)
                          THEN temp_files \cup {"pdf"} ELSE temp_files
    /\ UNCHANGED <<removed, slides_dir, slide_files, manual_shown, clips, eret>>
    /\ ExpOnly

\* main(), lines 536-538
TryPythonFallback ==
    /\ epc = "python"
    /\ \E load_ok \in BOOLEAN, k \in 0..MaxExported :
         /\ ~load_ok => k = 0
         /\ LET success == export_slides_python_fallback(load_ok)
            IN /\ dirs' = [dirs EXCEPT !["exported_slides"] = @ \cup one_based(k)]
               /\ attempted' = Append(attempted, [mech |-> "python",
                                                  kind |-> IF load_ok THEN "rc0" ELSE "error",
                                                  result |-> success])
               /\ epc' = "find"
    /\ UNCHANGED <<removed, slides_dir, slide_files, manual_shown, clips, eret, temp_files>>
    /\ ExpOnly

\* main(), lines 541-550: find_exported_slides() replaces whatever
\* slides_dir and slide_files held; without a directory the manual
\* instructions are printed and main returns False
ExpFind ==
    /\ epc = "find"
    /\ \E r \in {find_exported_slides("exporter", ls) : ls \in Listings(dirs)} :
         /\ slides_dir' = r.dir
         /\ slide_files' = r.files
         /\ IF r.dir = "None"
            THEN /\ manual_shown' = TRUE
                 /\ eret' = "False"
                 /\ epc' = "done"
            ELSE /\ epc' = "video"
                 /\ UNCHANGED <<manual_shown, eret>>
    /\ UNCHANGED <<dirs, attempted, removed, clips, temp_files>>
    /\ ExpOnly

\* main(), lines 558-621: one clip per slide image that can be processed,
\* then the slides-only video is written when there is at least one clip
ExpVideo ==
    /\ epc = "video"
    /\ \E good \in SUBSET (1..Len(slide_files)), wrote \in BOOLEAN :
         /\ clips' = Cardinality(good)
         /\ IF good = {}
            THEN /\ eret' = "None"
                 /\ epc' = "done"
            ELSE IF wrote
                 THEN /\ eret' = "filename"
                      /\ epc' = "done"
                 ELSE /\ eret' = eret
                      /\ epc' = "raised"
    /\ UNCHANGED <<dirs, attempted, removed, slides_dir, slide_files, manual_shown, temp_files>>
    /\ ExpOnly

ExpNext ==
    \/ ExpBegin
    \/ TryKeynote
    \/ TryPowerShell
    \/ TryLibreOffice
    \/ TryPythonFallback
    \/ ExpFind
    \/ ExpVideo

SpecExport == ExpInit /\ [][ExpNext]_vars

\* ------------------------------------------------------------------------
\* Presentation and narration extraction (extract_narration_from_slides)
\* ------------------------------------------------------------------------

Whitespace == {" ", "\n", "\t"}

\* str.strip(): drop leading and trailing whitespace
RECURSIVE lstrip(_)
lstrip(t) == IF t # <<>> /\ t[1] \in Whitespace THEN lstrip(Tail(t)) ELSE t

RECURSIVE rstrip(_)
rstrip(t) ==
    IF t # <<>> /\ t[Len(t)] \in Whitespace THEN rstrip(SubSeq(t, 1, Len(t) - 1)) ELSE t

strip(t) == rstrip(lstrip(t))

\* f"slide_{i+1}" for the 0-based loop index i
slide_key(i) == <<"s", "l", "i", "d", "e", "_">> \o str(i + 1)

\* the texts a title placeholder / a notes page may hold; present = FALSE
\* is a slide without title placeholder / without notes page
NoText == [present |-> FALSE, text |-> <<>>]

TitleTexts == {NoText,
               [present |-> TRUE, text |-> <<"A">>],
               [present |-> TRUE, text |-> <<" ", "A", "\n">>],
               [present |-> TRUE, text |-> <<"s", "l", "i", "d", "e", "_", "2">>]}

NotesTexts == {NoText,
               [present |-> TRUE, text |-> <<" ">>],
               [present |-> TRUE, text |-> <<"x">>],
               [present |-> TRUE, text |-> <<"\n", "y", " ">>]}

\* reading a slide may raise: not at all, while reading its shapes, or
\* while reading its notes
ReadFailures == {"no", "shapes", "notes"}

Slides(failures) == [title : TitleTexts, notes : NotesTexts, fails : failures]

\* the sequences over S of length at most n
RECURSIVE SeqsUpTo(_, _)
SeqsUpTo(S, n) ==
    IF n = 0 THEN {<<>>}
    ELSE LET shorter == SeqsUpTo(S, n - 1) IN
         shorter \cup {Append(t, x) : t \in {u \in shorter : Len(u) = n - 1}, x \in S}

\* the title main and the extractor read from a slide: shapes.title.text.strip(),
\* or "" without a title shape
slide_title(slide) == IF slide.title.present THEN strip(slide.title.text) ELSE <<>>

\* the narration read from a slide: notes_text_frame.text.strip(), or ""
\* without a notes page
slide_narration(slide) == IF slide.notes.present THEN strip(slide.notes.text) ELSE <<>>

\* dict[key] = value
dict_set(dict, key, value) ==
    [k \in (DOMAIN dict) \cup {key} |-> IF k = key THEN value ELSE dict[k]]

\* dict.get(key, "")
dict_get(dict, key) == IF key \in DOMAIN dict THEN dict[key] ELSE <<>>

\* a variant in which an exception while reading a slide ends the
\* extraction with an empty map
extract_slide_aborting(version, dict, slide, i) ==
    IF slide.fails # "no" THEN <<>>
    ELSE LET title     == slide_title(slide)
             narration == slide_narration(slide)
         IN IF title # <<>> /\ narration # <<>>
            THEN dict_set(dict_set(dict, title, narration), slide_key(i), narration)
            ELSE IF narration # <<>>
                 THEN dict_set(dict, slide_key(i), narration)
                 ELSE dict

\* a variant that stores a titled slide under its title only
extract_slide_title_only(version, dict, slide, i) ==
    IF slide.fails = "shapes" THEN dict
    ELSE IF slide.fails = "notes" THEN dict
    ELSE LET title     == slide_title(slide)
             narration == slide_narration(slide)
         IN IF title # <<>> /\ narration # <<>>
            THEN dict_set(dict, title, narration)
            ELSE IF narration # <<>>
                 THEN dict_set(dict, slide_key(i), narration)
                 ELSE dict

\* One iteration of the loop of extract_narration_from_slides for the slide
\* at 0-based index i.  An exception while reading the shapes leaves the
\* loop body (outer except); an exception while reading the notes leaves the
\* narration empty (assembler: inner except) or the loop body (exporter).
extract_slide(version, dict, slide, i) ==
    IF slide.fails = "shapes" THEN dict
    ELSE IF slide.fails = "notes" THEN dict
    ELSE LET title     == slide_title(slide)
             narration == slide_narration(slide)
         IN IF title # <<>> /\ narration # <<>>
            THEN dict_set(dict_set(dict, title, narration), slide_key(i), narration)
            ELSE IF narration # <<>>
                 THEN dict_set(dict, slide_key(i), narration)
                 ELSE dict

\* extract_narration_from_slides(presentation): the loop over all slides
RECURSIVE extract_narration_from_slides(_, _)
extract_narration_from_slides(version, slides) ==
    IF slides = <<>> THEN <<>>
    ELSE extract_slide(version,
                       extract_narration_from_slides(version, SubSeq(slides, 1, Len(slides) - 1)),
                       slides[Len(slides)], Len(slides) - 1)

\* at most this many slides in a presentation whose narration is extracted
MaxSlides == 3

\* the slides of such a presentation: any slide that reads without an
\* exception, and slides with notes "x" (titled "A" or untitled) whose
\* reading raises
ExtractSlides ==
    Slides({"no"}) \cup
    {sl \in Slides(ReadFailures \ {"no"}) :
        /\ sl.title.text \in {<<>>, <<"A">>}
        /\ sl.notes.text = <<"x">>}

ExtractInit ==
    /\ OrchIdle
    /\ ToolIdle
    /\ DiskIdle
    /\ ExpIdle
    /\ AsmIdle
    /\ presentation \in SeqsUpTo(ExtractSlides, MaxSlides)
    /\ extractor \in {"assembler", "exporter"}
    /\ xi = 0
    /\ narration_dict = <<>>

\* one iteration of "for i, slide in enumerate(presentation.slides)"
ExtractSlide ==
    /\ xi < Len(presentation)
    /\ narration_dict' = extract_slide(extractor, narration_dict, presentation[xi + 1], xi)
    /\ xi' = xi + 1
    /\ UNCHANGED <<presentation, extractor, orchVars, diskVars, expVars, asmVars, toolVars>>

ExtractNext == ExtractSlide

SpecExtract == ExtractInit /\ [][ExtractNext]_vars

\* ------------------------------------------------------------------------
\* Speech synthesis (generate_audio.py, generate_audio_file)
\* ------------------------------------------------------------------------

\* how a call ends once the key was found: an exception while the speech
\* configuration, the audio output or the synthesizer is created, one of the
\* three result reasons the code tells apart, or an exception raised by the
\* request
BackendResults == {"setup_exception", "completed", "canceled", "other", "exception"}

\* a variant without the try/except around the body: an exception of the
\* SDK leaves the function
generate_audio_file_unguarded(key_present, backend) ==
    IF ~key_present
    THEN [ok |-> FALSE, raised |-> FALSE, requests |-> 0, synthesizer |-> FALSE,
          report |-> "missing_key"]
    ELSE IF backend = "setup_exception"
    THEN [ok |-> "none", raised |-> TRUE, requests |-> 0, synthesizer |-> FALSE,
          report |-> "none"]
    ELSE IF backend = "completed"
    THEN [ok |-> TRUE, raised |-> FALSE, requests |-> 1, synthesizer |-> TRUE,
          report |-> "saved"]
    ELSE IF backend = "canceled"
    THEN [ok |-> FALSE, raised |-> FALSE, requests |-> 1, synthesizer |-> TRUE,
          report |-> "canceled"]
    ELSE IF backend = "other"
    THEN [ok |-> FALSE, raised |-> FALSE, requests |-> 1, synthesizer |-> TRUE,
          report |-> "unexpected"]
    ELSE [ok |-> "none", raised |-> TRUE, requests |-> 1, synthesizer |-> TRUE,
          report |-> "none"]

\* a variant that repeats a request that did not complete
generate_audio_file_retrying(key_present, backend) ==
    IF ~key_present
    THEN [ok |-> FALSE, raised |-> FALSE, requests |-> 0, synthesizer |-> FALSE,
          report |-> "missing_key"]
    ELSE IF backend = "setup_exception"
    THEN [ok |-> FALSE, raised |-> FALSE, requests |-> 0, synthesizer |-> FALSE,
          report |-> "error"]
    ELSE IF backend = "completed"
    THEN [ok |-> TRUE, raised |-> FALSE, requests |-> 1, synthesizer |-> TRUE,
          report |-> "saved"]
    ELSE IF backend = "canceled"
    THEN [ok |-> FALSE, raised |-> FALSE, requests |-> 2, synthesizer |-> TRUE,
          report |-> "canceled"]
    ELSE IF backend = "other"
    THEN [ok |-> FALSE, raised |-> FALSE, requests |-> 2, synthesizer |-> TRUE,
          report |-> "unexpected"]
    ELSE [ok |-> FALSE, raised |-> FALSE, requests |-> 2, synthesizer |-> TRUE,
          report |-> "error"]

\* a variant without the check of SPEECH_KEY: the request is made with an
\* empty key
generate_audio_file_without_key_check(key_present, backend) ==
    IF backend = "setup_exception"
    THEN [ok |-> FALSE, raised |-> FALSE, requests |-> 0, synthesizer |-> FALSE,
          report |-> "error"]
    ELSE IF backend = "completed" /\ key_present
    THEN [ok |-> TRUE, raised |-> FALSE, requests |-> 1, synthesizer |-> TRUE,
          report |-> "saved"]
    ELSE IF backend = "other"
    THEN [ok |-> FALSE, raised |-> FALSE, requests |-> 1, synthesizer |-> TRUE,
          report |-> "unexpected"]
    ELSE IF backend = "exception"
    THEN [ok |-> FALSE, raised |-> FALSE, requests |-> 1, synthesizer |-> TRUE,
          report |-> "error"]
    ELSE [ok |-> FALSE, raised |-> FALSE, requests |-> 1, synthesizer |-> TRUE,
          report |-> "canceled"]

\* generate_audio_file(text, output_path, voice_name): ok is the returned
\* boolean, raised whether an exception leaves the function (the whole body
\* is inside try/except Exception), requests the number of
\* speak_text_async calls, synthesizer whether a SpeechSynthesizer was
\* created, report the message printed.  Without SPEECH_KEY the function
\* returns False before anything is created.
generate_audio_file(key_present, backend) ==
    IF ~key_present
    THEN [ok |-> FALSE, raised |-> FALSE, requests |-> 0, synthesizer |-> FALSE,
          report |-> "missing_key"]
    ELSE IF backend = "setup_exception"
    THEN [ok |-> FALSE, raised |-> FALSE, requests |-> 0, synthesizer |-> FALSE,
          report |-> "error"]
    ELSE IF backend = "completed"
    THEN [ok |-> TRUE, raised |-> FALSE, requests |-> 1, synthesizer |-> TRUE,
          report |-> "saved"]
    ELSE IF backend = "canceled"
    THEN [ok |-> FALSE, raised |-> FALSE, requests |-> 1, synthesizer |-> TRUE,
          report |-> "canceled"]
    ELSE IF backend = "other"
    THEN [ok |-> FALSE, raised |-> FALSE, requests |-> 1, synthesizer |-> TRUE,
          report |-> "unexpected"]
    ELSE [ok |-> FALSE, raised |-> FALSE, requests |-> 1, synthesizer |-> TRUE,
          report |-> "error"]

\* lines 25-27: the voice used, from the argument, else VOICE_NAME, else
\* the default voice
DefaultVoice == "en-US-AvaMultilingualNeural"

select_voice(voice_name, env_voice) ==
    IF voice_name # "None" THEN voice_name
    ELSE IF env_voice # "unset" THEN env_voice
    ELSE DefaultVoice

\* the texts, voice arguments and VOICE_NAME settings of the calls
SynthTexts == {<<>>, <<"x">>}

test_text == <<"H", "e", "l", "l", "o">>

VoiceArgs == {"None", "en-GB-RyanNeural"}

EnvVoices == {"unset", "en-US-JennyNeural"}

\* at most this many calls of generate_audio_file in one behaviour
MaxSynthCalls == 2

SynthInit ==
    /\ OrchIdle
    /\ ToolIdle
    /\ DiskIdle
    /\ ExpIdle
    /\ DocIdle
    /\ apc = "idle"
    /\ speech_key \in BOOLEAN
    /\ pause_duration = 0
    /\ narration_notes = <<>>
    /\ asm_files = <<>>
    /\ asm_i = 0
    /\ video_clips = <<>>
    /\ synth_calls = <<>>
    /\ errors = {}
    /\ concat_bound = FALSE
    /\ workdirs \in {{}, {"test_audio"}}
    /\ output_video = [written |-> FALSE, clips |-> <<>>, include_end_slide |-> FALSE,
                       end_image |-> FALSE, end_warning |-> "none", write_error |-> "none"]
    /\ aret = "none"

SynthOnly == UNCHANGED <<toolVars, orchVars, diskVars, expVars, docVars, apc, speech_key, pause_duration,
                         narration_notes, asm_files, asm_i, video_clips, errors, concat_bound,
                         output_video>>

\* a call generate_audio_file(text, output_path, voice_name) by any caller
CallGenerateAudioFile ==
    /\ Len(synth_calls) < MaxSynthCalls
    /\ \E text \in SynthTexts, voice_name \in VoiceArgs, env_voice \in EnvVoices,
          backend \in BackendResults :
         /\ ~speech_key => (backend = "exception" /\ env_voice = "unset")
         /\ voice_name # "None" => env_voice = "unset"
         /\ synth_calls' = Append(synth_calls,
               [caller |-> "direct", text |-> text,
                voice |-> select_voice(voice_name, env_voice),
                key |-> speech_key, backend |-> backend,
                result |-> generate_audio_file(speech_key, backend)])
    /\ UNCHANGED <<workdirs, aret>>
    /\ SynthOnly

\* generate_audio.py run as a script: test_audio_generation(), lines 66-87
TestAudioGeneration ==
    /\ Len(synth_calls) < MaxSynthCalls
    /\ \E env_voice \in EnvVoices, backend \in BackendResults :
         /\ ~speech_key => (backend = "exception" /\ env_voice = "unset")
         /\ synth_calls' = Append(synth_calls,
               [caller |-> "test", text |-> test_text,
                voice |-> select_voice("None", env_voice),
                key |-> speech_key, backend |-> backend,
                result |-> generate_audio_file(speech_key, backend)])
         /\ aret' = IF generate_audio_file(speech_key, backend).ok = TRUE THEN "True" ELSE "False"
    /\ workdirs' = workdirs \cup {"test_audio"}
    /\ SynthOnly

SynthNext ==
    \/ CallGenerateAudioFile
    \/ TestAudioGeneration

SpecSynth == SynthInit /\ [][SynthNext]_vars

\* ------------------------------------------------------------------------
\* Assembler: utilities/generate_with_azure_audio.py, main()
\* ------------------------------------------------------------------------

\* durations are in tenths of a second
NoNarrationDuration == 30

SynthesisFallbackDuration == 50

EndSlideFallbackDuration == 50

\* the values PAUSE_DURATION takes (1.5 s is the default)
PauseDurations == {0, 15}

\* the durations a synthesized audio file may have
AudioDurations == {20, 35}

\* at most this many slides in an assembled presentation
MaxAsmSlides == 2

\* the slide images on disk when the assembler starts: exported_slides is
\* empty or holds images numbered from 1, from 0 or with number 1 missing;
\* the other directories are empty
AsmImageSets == {{}, {slide_1_png}, {slide_1_png, slide_2_png}, {slide_0_png, slide_1_png},
                 {slide_2_png}}

AsmDisks == {[d \in DirSet |-> IF d = "exported_slides" THEN files ELSE {}] : files \in AsmImageSets}

\* the titles and notes of an assembled presentation
AsmTitleTexts == {NoText,
                  [present |-> TRUE, text |-> <<"A">>],
                  [present |-> TRUE, text |-> <<"s", "l", "i", "d", "e", "_", "2">>]}

\* notes absent, plain, or with whitespace to trim
AsmNotesTexts == {NoText,
                  [present |-> TRUE, text |-> <<"x">>],
                  [present |-> TRUE, text |-> <<"\n", "y", " ">>]}

AsmSlides == [title : AsmTitleTexts, notes : AsmNotesTexts, fails : {"no"}]

\* a variant that consults the positional key first
lookup_narration_position_first(notes, title, i) ==
    IF dict_get(notes, slide_key(i)) # <<>>
    THEN dict_get(notes, slide_key(i))
    ELSE IF title # <<>> THEN dict_get(notes, title) ELSE <<>>

\* main(), lines 154-178: the narration of the slide at 0-based index i,
\* looked up by title first and by slide_{i+1} when that gave nothing
lookup_narration(notes, title, i) ==
    IF title # <<>> /\ dict_get(notes, title) # <<>>
    THEN dict_get(notes, title)
    ELSE dict_get(notes, slide_key(i))

\* the state main() starts in: configuration read from the environment,
\* slide images on disk, test_audio left by the synthesis smoke test
AsmInit ==
    /\ OrchIdle
    /\ ToolIdle
    /\ ExpIdle
    /\ dirs \in AsmDisks
    /\ finder = "assembler"
    /\ find_result = [dir |-> "unset", files |-> <<>>]
    /\ presentation \in SeqsUpTo(AsmSlides, MaxAsmSlides)
    /\ extractor = "assembler"
    /\ xi = 0
    /\ narration_dict = <<>>
    /\ apc = "begin"
    /\ speech_key \in BOOLEAN
    /\ pause_duration \in PauseDurations
    /\ narration_notes = <<>>
    /\ asm_files = <<>>
    /\ asm_i = 0
    /\ video_clips = <<>>
    /\ synth_calls = <<>>
    /\ errors = {}
    /\ concat_bound = FALSE
    /\ workdirs = {"test_audio"}
    /\ output_video = [written |-> FALSE, clips |-> <<>>, include_end_slide |-> FALSE,
                       end_image |-> FALSE, end_warning |-> "none", write_error |-> "none"]
    /\ aret = "none"

AsmOnly == UNCHANGED <<toolVars, orchVars, expVars, dirs, finder, presentation, extractor, speech_key,
                       pause_duration>>

\* main(), lines 89-126: load the presentation, extract the narration, find
\* the slide images, create audio_clips and slide_images
AsmBegin ==
    /\ apc = "begin"
    /\ \E pptx_exists \in BOOLEAN, loaded \in BOOLEAN :
         IF ~pptx_exists \/ ~loaded
         THEN /\ aret' = "False"
              /\ apc' = "done"
              /\ UNCHANGED <<xi, narration_dict, narration_notes, asm_files, find_result, workdirs>>
         ELSE \E r \in {find_exported_slides("assembler", ls) : ls \in Listings(dirs)} :
                /\ narration_dict' = extract_narration_from_slides("assembler", presentation)
                /\ narration_notes' = narration_dict'
                /\ xi' = Len(presentation)
                /\ find_result' = r
                /\ IF r.dir = "None"
                   THEN /\ aret' = "False"
                        /\ apc' = "done"
                        /\ UNCHANGED <<asm_files, workdirs>>
                   ELSE /\ asm_files' = r.files
                        /\ workdirs' = workdirs \cup {"audio_clips", "slide_images"}
                        /\ apc' = "slides"
                        /\ aret' = aret
    /\ UNCHANGED <<asm_i, video_clips, synth_calls, errors, concat_bound, output_video>>
    /\ AsmOnly

\* main(), lines 180-216: the clip made for slide image n.  usable: the
\* synthesis returned True and the audio file is on disk.  parts are the
\* clips concatenated into the segment, duration its length.
slide_clip_without_pause(n, narration, usable, pause, audio_duration) ==
    IF narration # <<>>
    THEN IF usable
         THEN [image |-> n, kind |-> "narrated",
               parts |-> <<[duration |-> audio_duration, sound |-> TRUE]>>,
               duration |-> audio_duration, text |-> narration]
         ELSE [image |-> n, kind |-> "fallback",
               parts |-> <<[duration |-> SynthesisFallbackDuration, sound |-> FALSE]>>,
               duration |-> SynthesisFallbackDuration, text |-> <<>>]
    ELSE [image |-> n, kind |-> "silent",
          parts |-> <<[duration |-> NoNarrationDuration, sound |-> FALSE]>>,
          duration |-> NoNarrationDuration, text |-> <<>>]

slide_clip_short_fallback(n, narration, usable, pause, audio_duration) ==
    IF narration # <<>> /\ usable
    THEN [image |-> n, kind |-> "narrated",
          parts |-> <<[duration |-> pause, sound |-> FALSE],
                      [duration |-> audio_duration, sound |-> TRUE]>>,
          duration |-> pause + audio_duration, text |-> narration]
    ELSE [image |-> n, kind |-> IF narration # <<>> THEN "fallback" ELSE "silent",
          parts |-> <<[duration |-> NoNarrationDuration, sound |-> FALSE]>>,
          duration |-> NoNarrationDuration, text |-> <<>>]

slide_clip(n, narration, usable, pause, audio_duration) ==
    IF narration # <<>>
    THEN IF usable
         THEN [image |-> n, kind |-> "narrated",
               parts |-> <<[duration |-> pause, sound |-> FALSE],
                           [duration |-> audio_duration, sound |-> TRUE]>>,
               duration |-> pause + audio_duration, text |-> narration]
         ELSE [image |-> n, kind |-> "fallback",
               parts |-> <<[duration |-> SynthesisFallbackDuration, sound |-> FALSE]>>,
               duration |-> SynthesisFallbackDuration, text |-> <<>>]
    ELSE [image |-> n, kind |-> "silent",
          parts |-> <<[duration |-> NoNarrationDuration, sound |-> FALSE]>>,
          duration |-> NoNarrationDuration, text |-> <<>>]

\* a variant that puts a new clip in front of the others
append_clip_in_front(segments, clip) == <<clip>> \o segments

\* video_clips.append(...), lines 203, 209, 215, 263 and 269
append_clip(segments, clip) == Append(segments, clip)

\* a variant in which an exception in one slide discards the clips made so far
clips_after_slide_aborting(segments, clip, raised) ==
    IF raised THEN <<>> ELSE append_clip(segments, clip)

\* lines 136-219: the body of the loop is one try block, its except clause
\* only prints; the clip is appended by the last statement of a branch, so
\* an iteration that raised leaves the list as it was
clips_after_slide(segments, clip, raised) ==
    IF raised THEN segments ELSE append_clip(segments, clip)

\* main(), lines 132-219: one iteration of the loop over the slide images.
\* raised: no exception, one before the synthesis call (image or title
\* cannot be read), one while the audio file is read (lines 187-196) or one
\* in the concatenation of pause and narration (line 200).  The import on
\* line 199 makes concatenate_videoclips a local name of main, bound only
\* once that line has run.
AsmSlide ==
    /\ apc = "slides"
    /\ asm_i < Len(asm_files)
    /\ \E narration \in {lookup_narration(narration_notes,
                                          IF asm_i < Len(presentation)
                                          THEN slide_title(presentation[asm_i + 1]) ELSE <<>>,
                                          asm_i)} :
       \E backend \in IF narration # <<>> /\ speech_key THEN BackendResults ELSE {"exception"} :
       \E file_exists \in IF narration # <<>> /\ generate_audio_file(speech_key, backend).ok
                          THEN BOOLEAN ELSE {FALSE} :
       \E raised \in IF file_exists THEN {"no", "before", "audio", "concat"}
                     ELSE {"no", "before"} :
       \E audio_duration \in IF file_exists /\ raised = "no" THEN AudioDurations ELSE {20} :
         LET i         == asm_i
             audio     == generate_audio_file(speech_key, backend)
             usable    == audio.ok /\ file_exists
             call      == [image |-> i + 1, text |-> narration, requests |-> audio.requests,
                           usable |-> usable,
                           audio |-> IF usable THEN audio_duration ELSE 0]
         IN
         /\ errors' = IF raised # "no" THEN errors \cup {i + 1} ELSE errors
         /\ video_clips' = clips_after_slide(video_clips,
                               slide_clip(i + 1, narration, usable, pause_duration,
                                          audio_duration),
                               raised # "no")
         /\ IF raised = "before"
            THEN UNCHANGED <<synth_calls, concat_bound>>
            ELSE /\ synth_calls' = IF narration # <<>> THEN Append(synth_calls, call)
                                   ELSE synth_calls
                 /\ concat_bound' = (concat_bound \/ (usable /\ raised # "audio"))
    /\ asm_i' = asm_i + 1
    /\ UNCHANGED <<apc, xi, narration_dict, narration_notes, asm_files, find_result, workdirs,
                   output_video, aret>>
    /\ AsmOnly

\* a variant that assembles and writes whatever list of clips there is
finish_outcome_ignoring_empty(segments, bound, write_raised) ==
    IF write_raised THEN "io" ELSE "none"

\* lines 222, 278-282 and 340-348: how the run ends.  Without clips main
\* returns False (line 342); the use of concatenate_videoclips on line 278
\* raises UnboundLocalError while the name is unbound; write_videofile may
\* raise; otherwise the video is written.
finish_outcome(segments, bound, write_raised) ==
    IF segments = <<>> THEN "no_clips"
    ELSE IF ~bound THEN "unbound"
    ELSE IF write_raised THEN "io"
    ELSE "none"

\* line 26: INCLUDE_END_SLIDE, default 'true', lowered, is one of true, yes, 1
EndSlideSettings ==
    {[set |-> FALSE, value |-> <<>>],
     [set |-> TRUE, value |-> <<"t", "r", "u", "e">>],
     [set |-> TRUE, value |-> <<"Y", "e", "s">>],
     [set |-> TRUE, value |-> <<"1">>],
     [set |-> TRUE, value |-> <<"f", "a", "l", "s", "e">>],
     [set |-> TRUE, value |-> <<"o", "n">>],
     [set |-> TRUE, value |-> <<>>]}

include_end_slide_flag(setting) ==
    lower(IF setting.set THEN setting.value ELSE <<"t", "r", "u", "e">>)
        \in {<<"t", "r", "u", "e">>, <<"y", "e", "s">>, <<"1">>}

\* the values the flag takes over these settings
IncludeEndSlideValues == {include_end_slide_flag(setting) : setting \in EndSlideSettings}

end_slide_narration == <<"e", "n", "d">>

\* lines 246-270: the clip made for the end slide
end_clip(usable, pause, audio_duration) ==
    IF usable
    THEN [image |-> 0, kind |-> "end_narrated",
          parts |-> <<[duration |-> pause, sound |-> FALSE],
                      [duration |-> audio_duration, sound |-> TRUE]>>,
          duration |-> pause + audio_duration, text |-> end_slide_narration]
    ELSE [image |-> 0, kind |-> "end_silent",
          parts |-> <<[duration |-> EndSlideFallbackDuration, sound |-> FALSE]>>,
          duration |-> EndSlideFallbackDuration, text |-> <<>>]

\* main(), lines 221-348: without clips return False; otherwise add the end
\* slide when enabled and present (a missing image or an exception is logged
\* as a warning), concatenate and write the video, remove slide_images and
\* test_audio, return True.  An exception while concatenating or writing
\* makes main return False (outer except).  While concatenate_videoclips is
\* unbound, its uses on lines 260 and 278 raise UnboundLocalError: the
\* narrated end slide is dropped (inner except) and no video is written.
AsmFinish ==
    /\ apc = "slides"
    /\ asm_i = Len(asm_files)
    /\ IF finish_outcome(video_clips, concat_bound, FALSE) = "no_clips"
       THEN /\ aret' = "False"
            /\ output_video' = [output_video EXCEPT !.write_error = "no_clips"]
            /\ UNCHANGED <<video_clips, synth_calls, workdirs>>
       ELSE \E include \in IncludeEndSlideValues :
            \E end_image \in IF include THEN BOOLEAN ELSE {FALSE} :
            \E backend \in IF include /\ end_image /\ speech_key THEN BackendResults
                           ELSE {"exception"} :
            \E file_exists \in IF generate_audio_file(speech_key, backend).ok THEN BOOLEAN
                               ELSE {FALSE} :
            \E audio_raised \in IF include /\ end_image /\ file_exists /\ concat_bound
                                THEN BOOLEAN ELSE {FALSE} :
            \E audio_duration \in IF include /\ end_image /\ file_exists /\ concat_bound
                                     /\ ~audio_raised
                                  THEN AudioDurations ELSE {20} :
            \E write_raised \in IF concat_bound THEN BOOLEAN ELSE {FALSE} :
              LET audio     == generate_audio_file(speech_key, backend)
                  tried     == include /\ end_image
                  usable    == audio.ok /\ file_exists
                  call      == [image |-> 0, text |-> end_slide_narration,
                                requests |-> audio.requests, usable |-> usable,
                                audio |-> IF usable THEN audio_duration ELSE 0]
                  end_raised == tried /\ usable /\ (audio_raised \/ ~concat_bound)
                  write_error == finish_outcome(video_clips, concat_bound, write_raised)
              IN
              /\ synth_calls' = IF tried THEN Append(synth_calls, call) ELSE synth_calls
              /\ video_clips' = IF tried /\ ~end_raised
                                THEN append_clip(video_clips,
                                         end_clip(usable, pause_duration, audio_duration))
                                ELSE video_clips
              /\ output_video' = [written |-> write_error = "none",
                                  clips |-> IF write_error = "none" THEN video_clips' ELSE <<>>,
                                  include_end_slide |-> include,
                                  end_image |-> end_image,
                                  end_warning |->
                                      IF include /\ ~end_image THEN "missing_image"
                                      ELSE IF tried /\ usable /\ ~concat_bound THEN "unbound"
                                      ELSE IF end_raised THEN "exception"
                                      ELSE "none",
                                  write_error |-> write_error]
              /\ workdirs' = IF write_error = "none"
                             THEN cleanup_intermediate(workdirs)
                             ELSE workdirs
              /\ aret' = IF write_error = "none" THEN "True" ELSE "False"
    /\ apc' = "done"
    /\ UNCHANGED <<xi, narration_dict, narration_notes, asm_files, asm_i, errors, concat_bound,
                   find_result>>
    /\ AsmOnly

AsmNext ==
    \/ AsmBegin
    \/ AsmSlide
    \/ AsmFinish

SpecAssemble == AsmInit /\ [][AsmNext]_vars

\* ------------------------------------------------------------------------
\* The name of the final video (utilities/filename_utils.py)
\* ------------------------------------------------------------------------

NameDirs == {<<>>, <<"d", "/">>, <<"v", ".", "2", "/">>}

NameStems == {<<"t", "e", "s", "t", "-", "p", "p", "t">>,
              <<"c", "o", "d", "e", "_", "m", "a", "i", "n", "t", "e", "n", "a", "n", "c", "e",
                "_", "p", "r", "o", "c", "e", "s", "s">>,
              <<"a", ".", "b">>,
              <<".", "h">>,
              <<"x">>}

NameExtensions == {<<>>, <<".", "p", "p", "t", "x">>, <<".", "P", "P", "T">>}

\* the settings of POWERPOINT_FILE: unset, or a path
PowerPointSettings ==
    {[set |-> FALSE, value |-> <<>>]} \cup
    {[set |-> TRUE, value |-> dir \o stem \o ext] :
        dir \in NameDirs, stem \in NameStems, ext \in NameExtensions}

OthersIdle ==
    /\ OrchIdle
    /\ DiskIdle
    /\ ExpIdle
    /\ DocIdle
    /\ AsmIdle

NameInit ==
    /\ OthersIdle
    /\ CleanupIdle
    /\ FrameIdle
    /\ npc = "start"
    /\ env_powerpoint_file \in PowerPointSettings
    /\ pptx_file = <<>>
    /\ output_video_name = <<>>
    /\ written_videos = {}
    /\ video_found = FALSE

NameOnly == UNCHANGED <<orchVars, diskVars, expVars, docVars, asmVars, cleanupVars, frameVars,
                        env_powerpoint_file>>

\* generate_with_azure_audio.py, lines 23-24
LoadConfiguration ==
    /\ npc = "start"
    /\ pptx_file' = get_powerpoint_file(env_powerpoint_file)
    /\ output_video_name' = get_output_video_name(env_powerpoint_file)
    /\ npc' = "configured"
    /\ UNCHANGED <<written_videos, video_found>>
    /\ NameOnly

\* generate_with_azure_audio.py, line 282: write_videofile(output_video_name)
WriteVideoFile ==
    /\ npc = "configured"
    /\ written_videos' = written_videos \cup {output_video_name}
    /\ npc' = "written"
    /\ UNCHANGED <<pptx_file, output_video_name, video_found>>
    /\ NameOnly

\* convert_ppt_to_video.py, lines 113-128: os.path.exists of the expected video
CheckOutputVideo ==
    /\ npc = "written"
    /\ video_found' = (expected_video \in written_videos)
    /\ npc' = "checked"
    /\ UNCHANGED <<pptx_file, output_video_name, written_videos>>
    /\ NameOnly

NameNext ==
    \/ LoadConfiguration
    \/ WriteVideoFile
    \/ CheckOutputVideo

SpecName == NameInit /\ [][NameNext]_vars

\* ------------------------------------------------------------------------
\* The cleanup command (utilities/cleanup.py)
\* ------------------------------------------------------------------------

\* line 63
dirs_to_clean == <<"slide_images", "audio_clips", "test_audio", "exported_slides">>

DirsToClean == {dirs_to_clean[k] : k \in 1..Len(dirs_to_clean)}

\* the menu loop is followed for at most this many rejected inputs
MaxInvalidChoices == 2

\* what may be typed at the menu
MenuInputs == {<<"1">>, <<"2">>, <<"3">>, <<"4">>, <<"5">>, <<" ", "2", "\n">>,
               <<"6">>, <<>>}

\* what may be typed at the final y/n prompt
PromptAnswers == {<<"y">>, <<"y", "e", "s">>, <<"Y">>, <<" ", "Y", "e", "s">>,
                  <<"n">>, <<>>}

\* what may be typed at the y/n prompt of one directory
CustomAnswers == {<<"y">>, <<"Y", "E", "S", " ">>, <<"n">>}

\* the states of the intermediate directories at the start: each absent or
\* holding files, all of them empty, or one of them empty
CleanupDisks ==
    [DirsToClean -> {"absent", "files"}] \cup
    {[dir \in DirsToClean |-> "empty"],
     [dir \in DirsToClean |-> IF dir = "slide_images" THEN "empty" ELSE "files"]}

\* get_directory_size(dir) > 0
has_bytes(disk, dir) == disk[dir] = "files"

\* os.path.exists(dir)
dir_exists(disk, dir) == disk[dir] # "absent"

\* lines 90-100: the directories of the presets 1, 2 and 3
preset(c) ==
    IF c = <<"1">> THEN <<"slide_images", "test_audio">>
    ELSE IF c = <<"2">> THEN <<"slide_images", "test_audio", "audio_clips">>
    ELSE IF c = <<"3">> THEN <<"slide_images", "test_audio", "audio_clips", "exported_slides">>
    ELSE <<>>

\* a variant that takes everything but n and no for consent
is_yes_unless_no(answer) == lower(strip(answer)) \notin {<<"n">>, <<"n", "o">>}

\* lines 107-108 and 128-129: input(...).strip().lower() in ['y', 'yes']
is_yes(answer) == lower(strip(answer)) \in {<<"y">>, <<"y", "e", "s">>}

\* lines 104-109: the directories of dirs_to_clean that exist and whose
\* prompt was answered with consent, in the order of dirs_to_clean
custom_selection(disk, answers) ==
    SelectSeq(dirs_to_clean, LAMBDA dir : dir_exists(disk, dir) /\ is_yes(answers[dir]))

\* remove_directory, lines 18-30: an existing directory is gone after
\* rmtree; when rmtree raises, the directory is still there
remove_directory(state, rmtree_raised) ==
    IF state = "absent" THEN "absent"
    ELSE IF rmtree_raised THEN state
    ELSE "absent"

CleanupInit ==
    /\ OthersIdle
    /\ NameIdle
    /\ FrameIdle
    /\ cpc = "start"
    /\ cleanup_disk \in CleanupDisks
    /\ initial_disk = cleanup_disk
    /\ invalid_choices = 0
    /\ choice = <<>>
    /\ custom_answers = <<>>
    /\ dirs_to_remove = <<>>
    /\ confirm = [asked |-> FALSE, answer |-> <<>>]

CleanupOnly == UNCHANGED <<orchVars, diskVars, expVars, docVars, asmVars, nameVars, frameVars,
                           initial_disk>>

\* lines 62-77: without any bytes to free the command returns at once
CleanupMeasure ==
    /\ cpc = "start"
    /\ cpc' = IF \E dir \in DirsToClean : has_bytes(cleanup_disk, dir) THEN "menu" ELSE "done"
    /\ UNCHANGED <<cleanup_disk, invalid_choices, choice, custom_answers, dirs_to_remove,
                   confirm>>
    /\ CleanupOnly

\* lines 87-119: one input at the menu.  1, 2, 3 select a preset, 4 asks
\* about each existing directory, 5 returns, anything else prompts again; an
\* empty selection returns.
CleanupMenu ==
    /\ cpc = "menu"
    /\ \E input \in MenuInputs :
       \E answers \in IF strip(input) = <<"4">>
                      THEN [{dir \in DirsToClean : dir_exists(cleanup_disk, dir)} -> CustomAnswers]
                      ELSE {<<>>} :
         LET c == strip(input) IN
         IF c \in {<<"1">>, <<"2">>, <<"3">>, <<"4">>}
         THEN /\ choice' = input
              /\ custom_answers' = answers
              /\ dirs_to_remove' = IF c = <<"4">>
                                   THEN custom_selection(cleanup_disk,
                                            [dir \in DirsToClean |->
                                                IF dir \in DOMAIN answers THEN answers[dir]
                                                ELSE <<>>])
                                   ELSE preset(c)
              /\ cpc' = IF dirs_to_remove' = <<>> THEN "done" ELSE "confirm"
              /\ UNCHANGED invalid_choices
         ELSE IF c = <<"5">>
         THEN /\ choice' = input
              /\ cpc' = "done"
              /\ UNCHANGED <<invalid_choices, custom_answers, dirs_to_remove>>
         ELSE /\ invalid_choices < MaxInvalidChoices
              /\ invalid_choices' = invalid_choices + 1
              /\ cpc' = "menu"
              /\ UNCHANGED <<choice, custom_answers, dirs_to_remove>>
    /\ UNCHANGED <<cleanup_disk, confirm>>
    /\ CleanupOnly

\* lines 121-131: the final prompt
CleanupConfirm ==
    /\ cpc = "confirm"
    /\ \E answer \in PromptAnswers :
         /\ confirm' = [asked |-> TRUE, answer |-> answer]
         /\ cpc' = IF is_yes(answer) THEN "cleanup" ELSE "done"
    /\ UNCHANGED <<cleanup_disk, invalid_choices, choice, custom_answers, dirs_to_remove>>
    /\ CleanupOnly

\* lines 133-146: remove_directory for every selected directory; rmtree
\* may fail for any of them
CleanupPerform ==
    /\ cpc = "cleanup"
    /\ \E raising \in SUBSET {dirs_to_remove[k] : k \in 1..Len(dirs_to_remove)} :
         cleanup_disk' = [dir \in DirsToClean |->
                             IF \E k \in 1..Len(dirs_to_remove) : dirs_to_remove[k] = dir
                             THEN remove_directory(cleanup_disk[dir], dir \in raising)
                             ELSE cleanup_disk[dir]]
    /\ cpc' = "done"
    /\ UNCHANGED <<invalid_choices, choice, custom_answers, dirs_to_remove, confirm>>
    /\ CleanupOnly

\* __main__, lines 167-170: Ctrl+C at a prompt ends the command
CleanupInterrupted ==
    /\ cpc \in {"menu", "confirm"}
    /\ cpc' = "done"
    /\ UNCHANGED <<cleanup_disk, invalid_choices, choice, custom_answers, dirs_to_remove,
                   confirm>>
    /\ CleanupOnly

CleanupNext ==
    \/ CleanupMeasure
    \/ CleanupMenu
    \/ CleanupConfirm
    \/ CleanupPerform
    \/ CleanupInterrupted

SpecCleanup == CleanupInit /\ [][CleanupNext]_vars

\* ------------------------------------------------------------------------
\* The frames of the segments (generate_with_azure_audio.py, lines 137-152
\* and 246-270)
\* ------------------------------------------------------------------------

\* line 142 and 145: the standard video dimensions
VideoWidth == 1280

VideoHeight == 720

Abs(n) == IF n < 0 THEN 0 - n ELSE n

Max2(a, b) == IF a < b THEN b ELSE a

\* Image.thumbnail((bw, bh)) on an image of size <<w, h>>, line 142: an
\* image that fits is left alone; otherwise it is scaled down keeping its
\* aspect ratio, the scaled side being the floor or the ceiling of the
\* exact value, whichever gives the aspect ratio nearer to w/h (the floor on
\* a tie), and at least 1
thumbnail(size, bw, bh) ==
    LET w == size[1]
        h == size[2]
    IN IF bw >= w /\ bh >= h THEN size
       ELSE IF bw * h >= bh * w
       THEN LET lo == (bh * w) \div h
                hi == IF (bh * w) % h = 0 THEN lo ELSE lo + 1
                x  == IF Abs(w * bh - lo * h) <= Abs(w * bh - hi * h) THEN lo ELSE hi
            IN <<Max2(x, 1), bh>>
       ELSE LET lo == (bw * h) \div w
                hi == IF (bw * h) % w = 0 THEN lo ELSE lo + 1
                y  == IF lo = 0 THEN lo
                      ELSE IF Abs(w * lo - bw * h) * hi <= Abs(w * hi - bw * h) * lo
                           THEN lo ELSE hi
            IN <<bw, Max2(y, 1)>>

\* lines 142-148: the thumbnail pasted on a white canvas of the standard
\* dimensions at offset ((1280 - width) // 2, (720 - height) // 2)
process_slide_image(size) ==
    LET thumb == thumbnail(size, VideoWidth, VideoHeight)
    IN [canvas |-> <<VideoWidth, VideoHeight>>,
        pasted |-> thumb,
        offset |-> <<(VideoWidth - thumb[1]) \div 2, (VideoHeight - thumb[2]) \div 2>>]

\* the sizes of the images met
ImageSizes ==
    {<<1280, 720>>, <<1920, 1080>>, <<640, 480>>, <<1000, 1000>>, <<3000, 100>>,
     <<1, 5000>>, <<1281, 721>>, <<4000, 3000>>, <<1279, 721>>, <<2560, 3>>}

FrameInit ==
    /\ OthersIdle
    /\ NameIdle
    /\ CleanupIdle
    /\ fpc = "slide"
    /\ slide_img \in ImageSizes
    /\ end_img \in ImageSizes
    /\ processed = [canvas |-> <<0, 0>>, pasted |-> <<0, 0>>, offset |-> <<0, 0>>]
    /\ frame_sizes = <<>>

FrameOnly == UNCHANGED <<orchVars, diskVars, expVars, docVars, asmVars, nameVars, cleanupVars,
                         slide_img, end_img>>

\* lines 137-216: the slide image is processed and saved, and the segment
\* is an ImageClip of the saved canvas
ProcessSlideImage ==
    /\ fpc = "slide"
    /\ processed' = process_slide_image(slide_img)
    /\ frame_sizes' = Append(frame_sizes, processed'.canvas)
    /\ fpc' = "end"
    /\ FrameOnly

\* lines 246-270: the end segment is an ImageClip of media/end-slide.png
\* itself, narrated (253-263) or silent (268-269)
AddEndSlide ==
    /\ fpc = "end"
    /\ frame_sizes' = Append(frame_sizes, end_img)
    /\ fpc' = "done"
    /\ UNCHANGED processed
    /\ FrameOnly

FrameNext ==
    \/ ProcessSlideImage
    \/ AddEndSlide

SpecFrame == FrameInit /\ [][FrameNext]_vars

Init == OrchInit

Next == OrchNext

Spec == Init /\ [][Next]_vars

\* ------------------------------------------------------------------------
\* Properties of the orchestrator
\* ------------------------------------------------------------------------

StageScript == [export |-> ExportScript, smoke |-> SmokeScript, assembly |-> AssemblyScript]

StageOrder == <<ExportScript, SmokeScript, AssemblyScript>>

IsPrefix(s, t) == Len(s) <= Len(t) /\ \A k \in 1..Len(s) : s[k] = t[k]

\* C1: the stages are launched only in the order export, smoke test,
\* assembly, and a stage that did not do its job is reported, makes main
\* return False and is the last stage launched.
C1_StopAtFirstFailedStage ==
    /\ IsPrefix(launched, StageOrder)
    /\ \A s \in Stages :
         job[s] = "not_done" =>
            /\ <<"failed", s>> \in reported
            /\ retval = "False"
            /\ launched[Len(launched)] = StageScript[s]

\* C2: when a prerequisite file is missing, nothing is ever launched, no
\* stage runs, the run never succeeds, and once main has returned it has
\* returned False after reporting exactly one file, a file that is missing.
C2_MissingPrerequisiteHalts ==
    (\E f \in RequiredSet : ~exists[f]) =>
        /\ launched = <<>>
        /\ \A s \in Stages : job[s] = "not_run"
        /\ retval # "True"
        /\ exit_code # 0
        /\ retval # "none" =>
              /\ retval = "False"
              /\ \E f \in RequiredSet :
                    /\ ~exists[f]
                    /\ {m \in reported : m[1] = "missing"} = {<<"missing", f>>}

C2_Witness ==
    /\ pc = "exited"
    /\ exit_code = 1
    /\ exists[PptxFile]
    /\ ~exists[EnvFile]
    /\ <<"missing", EnvFile>> \in reported
    /\ launched = <<>>

\* C3: when every export mechanism failed and no slide images were found,
\* the manual instructions are shown and the orchestrator halts: nothing
\* after the export script is launched and success is never reported.
C3_AllExportFailedHalts ==
    (<<"all_mechanisms_failed">> \in reported /\ job["export"] = "not_done"
        /\ <<"manual_instructions">> \in reported) =>
        /\ launched = <<ExportScript>>
        /\ retval # "True"
        /\ <<"success">> \notin reported

\* C4: the driver exits with 0 exactly when every stage did its job, and
\* with 1 otherwise (failure or interruption).
C4_ExitCodeReflectsSuccess ==
    pc = "exited" =>
        /\ exit_code \in {0, 1}
        /\ exit_code = 0 <=> (\A s \in Stages : job[s] = "done")

\* ------------------------------------------------------------------------
\* Properties of the exporter
\* ------------------------------------------------------------------------

\* the pre-supplied directory holds at least one PNG (it is never written)
Bypass == \E f \in dirs["uploaded_slides"] : is_png(f)

AllFailed == Len(attempted) = 4 /\ \A k \in 1..4 : ~attempted[k].result

ChainComplete == Len(attempted) = 4 \/ attempted[Len(attempted)].result

\* C5: the mechanisms are attempted in the fixed order, each only after all
\* earlier ones returned failure and none after a success; a timeout or a
\* non-zero exit status gives the result False, and the chain is never left
\* before a mechanism succeeded or all four were attempted.
C5_MechanismChain ==
    /\ Len(attempted) <= 4
    /\ \A k \in 1..Len(attempted) : attempted[k].mech = MechanismOrder[k]
    /\ \A k \in 1..(Len(attempted) - 1) : ~attempted[k].result
    /\ \A k \in 1..Len(attempted) :
         attempted[k].kind \in {"timeout", "nonzero"} => ~attempted[k].result
    /\ \A k \in 1..4 : epc = MechanismOrder[k] => Len(attempted) = k - 1
    /\ (~Bypass /\ epc \in {"find", "video", "done"}) => attempted # <<>>
    /\ (attempted # <<>> /\ epc \in {"find", "video", "done", "raised"}) => ChainComplete

C5_Witness ==
    /\ epc = "done"
    /\ Len(attempted) = 3
    /\ attempted[1].kind = "timeout"
    /\ attempted[2].kind = "nonzero"
    /\ attempted[3].result

\* C6: with a PNG in uploaded_slides, no mechanism is invoked, nothing is
\* deleted from exported_slides, and the slide images used afterwards are
\* exactly the PNG files of uploaded_slides.
C6_BypassUsesUploaded ==
    (Bypass /\ epc \in {"video", "done"}) =>
        /\ attempted = <<>>
        /\ removed = {}
        /\ slides_dir = "uploaded_slides"
        /\ {slide_files[k] : k \in 1..Len(slide_files)} = {f \in dirs["uploaded_slides"] : is_png(f)}

\* C7 (as stated): when all four mechanisms returned failure, main shows the
\* manual instructions, returns False and builds no clip.
C7_AllFailedReturnsFailure ==
    (AllFailed /\ epc \in {"video", "done", "raised"}) =>
        /\ epc = "done"
        /\ manual_shown
        /\ eret = "False"
        /\ clips = 0

NoSlideImages == \A d \in DirSet : \A f \in dirs[d] : ~is_slide_png("exporter", f)

\* C7 (amended): when all four mechanisms returned failure and no candidate
\* directory holds a slide image, main shows the manual instructions,
\* returns False and builds no clip.
C7_AllFailedNoImagesReturnsFailure ==
    (AllFailed /\ NoSlideImages /\ epc \in {"video", "done", "raised"}) =>
        /\ epc = "done"
        /\ manual_shown
        /\ eret = "False"
        /\ clips = 0

C7_Witness ==
    /\ AllFailed
    /\ NoSlideImages
    /\ epc = "done"
    /\ manual_shown
    /\ eret = "False"

\* ------------------------------------------------------------------------
\* Properties of find_exported_slides
\* ------------------------------------------------------------------------

\* what is expected of each file name, stated independently of the code
ExpectedPng == {slide_0_png, slide_1_png, slide_2_png, slide_10_png, Slide3_PNG, cover_png}

ExpectedSlideNamed == {slide_0_png, slide_1_png, slide_2_png, slide_10_png, Slide3_PNG}

ExpectedNumber ==
    [f \in AllNames |->
        CASE f = slide_0_png -> 0
          [] f = slide_1_png -> 1
          [] f = slide_2_png -> 2
          [] f = slide_10_png -> 10
          [] f = Slide3_PNG -> 3
          [] f = cover_png -> 0
          [] f = notes7_txt -> 7]

\* r is the files of the first candidate directory holding a file of
\* wanted, in ascending order of the expected number
IsFirstDirSorted(r, wanted) ==
    IF \A d \in DirSet : dirs[d] \cap wanted = {}
    THEN r = [dir |-> "None", files |-> <<>>]
    ELSE /\ \E k \in 1..Len(possible_dirs) :
              /\ r.dir = possible_dirs[k]
              /\ dirs[possible_dirs[k]] \cap wanted # {}
              /\ \A j \in 1..(k-1) : dirs[possible_dirs[j]] \cap wanted = {}
         /\ {r.files[k] : k \in 1..Len(r.files)} = dirs[r.dir] \cap wanted
         /\ Len(r.files) = Cardinality(dirs[r.dir] \cap wanted)
         /\ \A a, b \in 1..Len(r.files) :
              a < b => ExpectedNumber[r.files[a]] <= ExpectedNumber[r.files[b]]

\* C8 (as stated): the result is the PNG files of the first candidate
\* directory that has any PNG, ascending by the first number in the name
\* (0 without digits), for both versions of the function.
C8_FindReturnsSortedPngs ==
    find_result.dir # "unset" => IsFirstDirSorted(find_result, ExpectedPng)

\* C8 (amended): the result is the slide images of the first candidate
\* directory that has any, ascending by the first number in the name (0
\* without digits); a slide image is a name ending in .png for the
\* assembler's version and a name that also begins with "slide" for the
\* exporter's version (both compared case-insensitively).
C8_FindReturnsSortedSlideImages ==
    find_result.dir # "unset" =>
        IsFirstDirSorted(find_result,
                         IF finder = "exporter" THEN ExpectedSlideNamed ELSE ExpectedPng)

C8_Witness ==
    /\ find_result.dir = "manual_slides"
    /\ find_result.files = <<cover_png, slide_2_png, slide_10_png>>
    /\ finder = "assembler"

\* ------------------------------------------------------------------------
\* Properties of narration extraction
\* ------------------------------------------------------------------------

\* the trimmed form of each text, stated independently of strip
ExpectedTrim(t) ==
    CASE t = <<"A">> -> <<"A">>
      [] t = <<" ", "A", "\n">> -> <<"A">>
      [] t = <<"s", "l", "i", "d", "e", "_", "2">> -> <<"s", "l", "i", "d", "e", "_", "2">>
      [] t = <<" ">> -> <<>>
      [] t = <<"x">> -> <<"x">>
      [] t = <<"\n", "y", " ">> -> <<"y">>
      [] t = <<>> -> <<>>

\* the positional key of the slide with 1-based number n
ExpectedSlideKey(n) ==
    CASE n = 1 -> <<"s", "l", "i", "d", "e", "_", "1">>
      [] n = 2 -> <<"s", "l", "i", "d", "e", "_", "2">>
      [] n = 3 -> <<"s", "l", "i", "d", "e", "_", "3">>
      [] n = 4 -> <<"s", "l", "i", "d", "e", "_", "4">>

HasTitle(slide) == slide.title.present /\ ExpectedTrim(slide.title.text) # <<>>

HasNotes(slide) == slide.notes.present /\ ExpectedTrim(slide.notes.text) # <<>>

\* the keys slide n is expected to add
ExpectedKeys(slides, n) ==
    IF HasNotes(slides[n])
    THEN IF HasTitle(slides[n])
         THEN {ExpectedTrim(slides[n].title.text), ExpectedSlideKey(n)}
         ELSE {ExpectedSlideKey(n)}
    ELSE {}

\* C9: after the slides 1..xi were handled, the keys of the map are exactly:
\* title and slide_i for each slide with title and non-empty trimmed notes,
\* slide_i alone for each slide with notes but no title, nothing for a
\* slide without notes (slides read without an exception).
C9_NarrationKeys ==
    extractor # "none" =>
        DOMAIN narration_dict =
            UNION {ExpectedKeys(presentation, n) :
                      n \in {m \in 1..xi : presentation[m].fails = "no"}}

C9_Witness ==
    /\ Len(presentation) = 2
    /\ xi = 2
    /\ \A n \in 1..2 : presentation[n].fails = "no"
    /\ HasTitle(presentation[1]) /\ HasNotes(presentation[1])
    /\ ~HasTitle(presentation[2]) /\ HasNotes(presentation[2])
    /\ DOMAIN narration_dict = {<<"A">>, ExpectedSlideKey(1), ExpectedSlideKey(2)}

\* the segments made for slide image n, in order
SegmentsOf(n) == SelectSeq(video_clips, LAMBDA c : c.image = n)

\* C10: once the image of a slide whose notes are empty or absent has been
\* processed (without an exception), the slide has exactly one segment, the
\* silent one of 3 s, and no synthesis call was made for it.
C10_NoNotesGetsShortSilence ==
    \A n \in 1..asm_i :
        (n <= Len(presentation) /\ ~HasNotes(presentation[n]) /\ n \notin errors) =>
            /\ Len(SegmentsOf(n)) = 1
            /\ SegmentsOf(n)[1].kind = "silent"
            /\ SegmentsOf(n)[1].duration = 30
            /\ \A k \in 1..Len(synth_calls) : synth_calls[k].image # n

\* a slide without notes whose title is the title of a slide with notes
\* was given that slide's narration
C10_BorrowedNarration ==
    /\ Len(presentation) = 2
    /\ asm_i = 2
    /\ HasNotes(presentation[1]) /\ ~HasNotes(presentation[2])
    /\ presentation[1].title = presentation[2].title
    /\ SegmentsOf(2) # <<>>
    /\ SegmentsOf(2)[1].kind = "narrated"

\* the synthesis calls made for slide image n, in order
CallsOf(n) == SelectSeq(synth_calls, LAMBDA c : c.image = n)

\* the title of the slide shown with image n ("" beyond the last slide)
ExpectedTitle(n) ==
    IF n <= Len(presentation) /\ HasTitle(presentation[n])
    THEN ExpectedTrim(presentation[n].title.text)
    ELSE <<>>

MapEntry(key) == IF key \in DOMAIN narration_notes THEN narration_notes[key] ELSE <<>>

\* the narration the two-tier lookup is expected to give image n
ExpectedNarration(n) ==
    IF ExpectedTitle(n) # <<>> /\ MapEntry(ExpectedTitle(n)) # <<>>
    THEN MapEntry(ExpectedTitle(n))
    ELSE MapEntry(ExpectedSlideKey(n))

\* C11: for every processed slide image the narration used is the map's
\* entry under the slide's title when there is one, else the entry under
\* slide_i, else none: every synthesis call for the image carries exactly
\* that text, and without such text no call is made and the segment is
\* the silent one.
C11_TwoTierLookup ==
    \A n \in 1..asm_i :
        /\ \A k \in 1..Len(CallsOf(n)) : CallsOf(n)[k].text = ExpectedNarration(n)
        /\ ExpectedNarration(n) = <<>> =>
              /\ CallsOf(n) = <<>>
              /\ \A k \in 1..Len(SegmentsOf(n)) : SegmentsOf(n)[k].kind = "silent"
        /\ (ExpectedNarration(n) # <<>> /\ n \notin errors) =>
              /\ Len(CallsOf(n)) = 1
              /\ Len(SegmentsOf(n)) = 1
              /\ SegmentsOf(n)[1].kind \in {"narrated", "fallback"}

\* image 1 was processed while the map held different texts under the title
\* of slide 1 and under slide_1, and the title's text was synthesized
C11_Witness ==
    /\ asm_i >= 1
    /\ ExpectedTitle(1) # <<>>
    /\ MapEntry(ExpectedTitle(1)) # <<>>
    /\ MapEntry(ExpectedSlideKey(1)) # <<>>
    /\ MapEntry(ExpectedTitle(1)) # MapEntry(ExpectedSlideKey(1))
    /\ Len(CallsOf(1)) = 1
    /\ CallsOf(1)[1].text = MapEntry(ExpectedTitle(1))

\* the slides among 1..upto that read without an exception and add key k
Contributors(k, upto) ==
    {m \in 1..upto : presentation[m].fails = "no" /\ k \in ExpectedKeys(presentation, m)}

\* the greatest element of a non-empty set of numbers
Latest(S) == CHOOSE m \in S : \A o \in S : o <= m

\* C12: a slide whose shapes or notes cannot be read does not abort the
\* extraction: after the slides 1..xi the map holds exactly the entries of
\* the slides that were read, each key with the trimmed notes of the last
\* such slide that adds it, as if the failing slides had added nothing.
C12_FailureDoesNotAbortExtraction ==
    extractor # "none" =>
        /\ \A k \in DOMAIN narration_dict :
              /\ Contributors(k, xi) # {}
              /\ narration_dict[k] =
                    ExpectedTrim(presentation[Latest(Contributors(k, xi))].notes.text)
        /\ \A m \in 1..xi :
              presentation[m].fails = "no" => ExpectedKeys(presentation, m) \subseteq DOMAIN narration_dict

\* the second of three slides could not be read; the entries of the first
\* and of the third are in the map, nothing of the second is
C12_Witness ==
    /\ Len(presentation) = 3
    /\ xi = 3
    /\ presentation[1].fails = "no" /\ presentation[3].fails = "no"
    /\ presentation[2].fails = "shapes"
    /\ HasTitle(presentation[2])
    /\ ~HasTitle(presentation[1]) /\ HasNotes(presentation[1])
    /\ ~HasTitle(presentation[3]) /\ HasNotes(presentation[3])
    /\ DOMAIN narration_dict = {ExpectedSlideKey(1), ExpectedSlideKey(3)}
    /\ narration_dict[ExpectedSlideKey(1)] # narration_dict[ExpectedSlideKey(3)]

\* C13: every call of generate_audio_file returns a boolean to its caller,
\* whatever the input and whatever the backend did (completed, canceled,
\* another reason, an exception), and returns True only when the key was
\* there and the backend reported that synthesis completed.
C13_SynthesisNeverRaises ==
    \A k \in 1..Len(synth_calls) :
        "result" \in DOMAIN synth_calls[k] =>
            /\ ~synth_calls[k].result.raised
            /\ synth_calls[k].result.ok \in BOOLEAN
            /\ synth_calls[k].result.ok =>
                  (synth_calls[k].key /\ synth_calls[k].backend = "completed")

\* calls have ended with an exception of the request and with a result that
\* is neither completion nor cancellation, and both returned False
C13_Witness ==
    /\ Len(synth_calls) = 2
    /\ "result" \in DOMAIN synth_calls[1]
    /\ synth_calls[1].backend = "exception" /\ synth_calls[1].key
    /\ synth_calls[2].backend = "other"
    /\ ~synth_calls[1].result.ok /\ ~synth_calls[2].result.ok

\* C14: a call made while SPEECH_KEY is absent reports the missing key and
\* returns False, and neither creates a synthesizer nor makes a request.
C14_MissingKeyFailsFast ==
    \A k \in 1..Len(synth_calls) :
        ("result" \in DOMAIN synth_calls[k] /\ ~synth_calls[k].key) =>
            /\ synth_calls[k].result.report = "missing_key"
            /\ ~synth_calls[k].result.ok
            /\ ~synth_calls[k].result.synthesizer
            /\ synth_calls[k].result.requests = 0

\* generate_audio_file was called without SPEECH_KEY
C14_Witness ==
    /\ ~speech_key
    /\ Len(synth_calls) >= 1
    /\ "result" \in DOMAIN synth_calls[1]
    /\ synth_calls[1].result.report = "missing_key"

\* the images a synthesis call may be for: the end slide (0) and the slide
\* images handled so far
CalledImages == 0..asm_i

\* C15 as stated: at most one synthesis call per slide and for the end
\* slide, and every call makes exactly one backend request.
C15_OneCallOneRequest ==
    apc \in {"slides", "done"} =>
        /\ \A n \in CalledImages : Len(CallsOf(n)) <= 1
        /\ \A k \in 1..Len(synth_calls) : synth_calls[k].requests = 1

\* C15: at most one synthesis call per slide and for the end slide, and
\* every call makes at most one backend request (none without SPEECH_KEY):
\* a synthesis that failed is not tried again.
C15_OneCallAtMostOneRequest ==
    apc \in {"slides", "done"} =>
        /\ \A n \in CalledImages : Len(CallsOf(n)) <= 1
        /\ \A k \in 1..Len(synth_calls) :
              /\ synth_calls[k].image \in CalledImages
              /\ synth_calls[k].requests <= 1
              /\ ~speech_key => synth_calls[k].requests = 0

\* the synthesis for slide 1 failed after its one request, the slide got the
\* fallback segment, and the loop went on to slide 2 without another call
\* for slide 1
C15_Witness ==
    /\ asm_i = 2
    /\ Len(CallsOf(1)) = 1
    /\ CallsOf(1)[1].requests = 1
    /\ ~CallsOf(1)[1].usable
    /\ Len(SegmentsOf(1)) = 1
    /\ SegmentsOf(1)[1].kind = "fallback"
    /\ Len(CallsOf(2)) = 1

\* C16: every slide whose narration resolved and whose synthesis gave a
\* usable audio file (and whose processing raised no exception) has one
\* segment: a silent part of exactly the configured pause followed by a
\* part with sound of exactly the audio's duration, pause + audio in all.
C16_NarratedSegmentDuration ==
    \A n \in 1..asm_i :
        (CallsOf(n) # <<>> /\ CallsOf(n)[1].usable /\ n \notin errors) =>
            /\ Len(SegmentsOf(n)) = 1
            /\ SegmentsOf(n)[1].parts =
                  <<[duration |-> pause_duration, sound |-> FALSE],
                    [duration |-> CallsOf(n)[1].audio, sound |-> TRUE]>>
            /\ SegmentsOf(n)[1].duration = pause_duration + CallsOf(n)[1].audio

\* slide 1 was narrated with a pause of 1.5 s and an audio of 3.5 s
C16_Witness ==
    /\ asm_i >= 1
    /\ pause_duration = 15
    /\ Len(CallsOf(1)) = 1
    /\ CallsOf(1)[1].usable
    /\ CallsOf(1)[1].audio = 35
    /\ Len(SegmentsOf(1)) = 1
    /\ SegmentsOf(1)[1].duration = 50
    /\ SegmentsOf(1)[1].kind = "narrated"

\* C17: a slide whose narration resolved but whose synthesis gave no
\* usable audio file (and whose processing raised no exception) has one
\* silent segment of 5 s, which is not the 3 s of a slide without
\* narration; the run does not end before every slide image was handled.
C17_SynthesisFailureFallsBack ==
    /\ \A n \in 1..asm_i :
          (CallsOf(n) # <<>> /\ ~CallsOf(n)[1].usable /\ n \notin errors) =>
              /\ Len(SegmentsOf(n)) = 1
              /\ SegmentsOf(n)[1].parts = <<[duration |-> 50, sound |-> FALSE]>>
              /\ SegmentsOf(n)[1].duration = 50
              /\ SegmentsOf(n)[1].duration # 30
    /\ (apc = "done" /\ asm_files # <<>>) => asm_i = Len(asm_files)

\* the synthesis for slide 1 failed and the slide got 5 s; slide 2, without
\* narration, was handled after it and got 3 s
C17_Witness ==
    /\ asm_i = 2
    /\ Len(CallsOf(1)) = 1
    /\ ~CallsOf(1)[1].usable
    /\ Len(SegmentsOf(1)) = 1
    /\ SegmentsOf(1)[1].duration = 50
    /\ CallsOf(2) = <<>>
    /\ Len(SegmentsOf(2)) = 1
    /\ SegmentsOf(2)[1].duration = 30

\* the segments of the slides and those of the end slide
SlideSegments == SelectSeq(video_clips, LAMBDA c : c.image >= 1)

EndSegments == SelectSeq(video_clips, LAMBDA c : c.image = 0)

RECURSIVE TotalDuration(_)
TotalDuration(segments) ==
    IF segments = <<>> THEN 0 ELSE Head(segments).duration + TotalDuration(Tail(segments))

\* the expected duration of the slides 1..n when every synthesis gives an
\* audio of duration d: pause + d with notes, 3 s without
RECURSIVE ExpectedTotal(_, _)
ExpectedTotal(n, d) ==
    IF n = 0 THEN 0
    ELSE ExpectedTotal(n - 1, d)
         + (IF HasNotes(presentation[n]) THEN pause_duration + d ELSE 30)

\* every synthesis of the run succeeded with an audio of duration d and
\* nothing else failed
AllSynthesisSucceeded(d) ==
    /\ speech_key
    /\ errors = {}
    /\ output_video.end_warning \in {"none", "missing_image", "unbound"}
    /\ output_video.write_error # "io"
    /\ \A k \in 1..Len(synth_calls) : synth_calls[k].usable /\ synth_calls[k].audio = d

\* C18: after a run over N slides and N slide images in which every
\* synthesis succeeded with an audio of the same duration d, there are N
\* slide segments, one end segment more if the end slide is enabled and its
\* image exists, and the slide segments last pause + d for each slide with
\* notes and 3 s for each slide without.
C18_SegmentCountAndTotalDuration ==
    \A d \in AudioDurations :
        (/\ apc = "done"
         /\ Len(presentation) >= 1
         /\ Len(asm_files) = Len(presentation)
         /\ AllSynthesisSucceeded(d)) =>
            /\ Len(SlideSegments) = Len(presentation)
            /\ Len(EndSegments) =
                  IF output_video.include_end_slide /\ output_video.end_image THEN 1 ELSE 0
            /\ TotalDuration(SlideSegments) = ExpectedTotal(Len(presentation), d)

\* C19: after a run that produced slide segments (and in which reading the
\* end slide's audio did not fail), there is an end segment exactly when the
\* flag is true and the end-slide image exists; with the flag true and the
\* image missing there is none, a warning was logged, and, unless writing
\* the file failed, the video was written and main returned True.
C19_EndSegmentIffEnabledAndPresent ==
    (apc = "done" /\ SlideSegments # <<>> /\ output_video.end_warning # "exception") =>
        /\ (Len(EndSegments) = 1) <=>
              (output_video.include_end_slide /\ output_video.end_image)
        /\ Len(EndSegments) <= 1
        /\ (output_video.include_end_slide /\ ~output_video.end_image) =>
              /\ EndSegments = <<>>
              /\ output_video.end_warning = "missing_image"
              /\ output_video.write_error # "io" =>
                    (output_video.written /\ aret = "True")

\* C20: a run that ended without any slide segment returned False and wrote
\* no video.
C20_NoSegmentsIsFailure ==
    (apc = "done" /\ SlideSegments = <<>>) =>
        /\ aret = "False"
        /\ ~output_video.written
        /\ output_video.clips = <<>>

\* two slide images were found and the processing of both raised
C20_Witness ==
    /\ apc = "done"
    /\ Len(asm_files) = 2
    /\ asm_i = 2
    /\ errors = {1, 2}
    /\ video_clips = <<>>
    /\ output_video.write_error = "no_clips"
    /\ aret = "False"

\* the image files of the directory the assembler found its slides in
ExportedImagesOnDisk ==
    IF find_result.dir \in DOMAIN dirs THEN dirs[find_result.dir] ELSE {}

\* C21: after a run of the assembler that returned True, slide_images and
\* test_audio do not exist, audio_clips exists, and the exported slide
\* images the run found are all still on disk.
C21_CleanupAfterSuccess ==
    (apc = "done" /\ aret = "True") =>
        /\ "slide_images" \notin workdirs
        /\ "test_audio" \notin workdirs
        /\ "audio_clips" \in workdirs
        /\ {asm_files[k] : k \in 1..Len(asm_files)} \subseteq ExportedImagesOnDisk
        /\ asm_files # <<>>

\* a run over two exported images wrote its video and returned True
C21_Witness ==
    /\ apc = "done"
    /\ aret = "True"
    /\ output_video.written
    /\ Len(asm_files) = 2
    /\ workdirs = {"audio_clips"}

video_suffix ==
    <<"_", "W", "I", "T", "H", "_", "A", "Z", "U", "R", "E", "_", "A", "U", "D", "I", "O">>

\* the base name of a document: what precedes the last dot of its last path
\* component, when that dot has characters on both sides
ExpectedBaseName(path) ==
    LET slashes == {k \in 1..Len(path) : path[k] = "/"}
        from    == IF slashes = {} THEN 1
                   ELSE (CHOOSE k \in slashes : \A j \in slashes : j <= k) + 1
        dots    == {k \in (from + 1)..(Len(path) - 1) : path[k] = "."}
        to      == IF dots = {} THEN Len(path)
                   ELSE (CHOOSE k \in dots : \A j \in dots : j <= k) - 1
    IN [k \in 1..(to - from + 1) |-> path[from + k - 1]]

\* C22: the video is written under the document's base name followed by
\* _WITH_AZURE_AUDIO and .mp4, and that is the name check_output_files
\* looks for.
C22_VideoNameHasSuffix ==
    /\ npc \in {"written", "checked"} =>
          written_videos = {ExpectedBaseName(pptx_file) \o video_suffix \o dot_mp4}
    /\ npc = "checked" => video_found

\* the directories whose state differs from the state at the start
TouchedDirs == {dir \in DOMAIN cleanup_disk : cleanup_disk[dir] # initial_disk[dir]}

\* a text without the blanks before its first and after its last other
\* character
Trimmed(t) ==
    LET solid == {k \in 1..Len(t) : t[k] \notin Whitespace}
        from  == CHOOSE k \in solid : \A j \in solid : k <= j
        to    == CHOOSE k \in solid : \A j \in solid : j <= k
    IN IF solid = {} THEN <<>> ELSE [k \in 1..(to - from + 1) |-> t[from + k - 1]]

\* an answer that reads y or yes, whatever the case and the blanks around it
Consents(answer) == lower(Trimmed(answer)) \in {<<"y">>, <<"y", "e", "s">>}

\* the selection that the menu input stands for
ExpectedSelection ==
    IF Trimmed(choice) = <<"1">> THEN {"slide_images", "test_audio"}
    ELSE IF Trimmed(choice) = <<"2">> THEN {"slide_images", "test_audio", "audio_clips"}
    ELSE IF Trimmed(choice) = <<"3">>
         THEN {"slide_images", "test_audio", "audio_clips", "exported_slides"}
    ELSE IF Trimmed(choice) = <<"4">>
         THEN {dir \in DOMAIN custom_answers : Consents(custom_answers[dir])}
    ELSE {}

\* C23, as stated: a directory is removed only if it is in the selection and
\* the final prompt was answered exactly y or yes; before that, and after
\* any other answer, nothing is removed.
C23_RemovesOnlySelectedAfterYes ==
    /\ TouchedDirs \subseteq ExpectedSelection
    /\ TouchedDirs # {} =>
          /\ confirm.asked
          /\ confirm.answer \in {<<"y">>, <<"y", "e", "s">>}
    /\ cpc \in {"start", "menu", "confirm"} => TouchedDirs = {}

\* C23, amended: a directory is removed only if it is in the selection and
\* the final prompt was answered y or yes, whatever the case of the letters
\* and the blanks around them; before that, and after any other answer,
\* nothing is removed, and an invalid menu choice leaves the selection empty.
C23_RemovesOnlySelectedAfterConsent ==
    /\ TouchedDirs \subseteq ExpectedSelection
    /\ TouchedDirs # {} =>
          /\ confirm.asked
          /\ Consents(confirm.answer)
    /\ cpc \in {"start", "menu", "confirm"} => TouchedDirs = {}
    /\ cpc = "menu" => dirs_to_remove = <<>>
    /\ (cpc = "done" /\ confirm.asked /\ ~Consents(confirm.answer)) => TouchedDirs = {}

\* after one rejected menu input, preset 1 was chosen and confirmed with
\* " Yes", and both of its directories were removed
C23_Witness ==
    /\ cpc = "done"
    /\ invalid_choices = 1
    /\ choice = <<"1">>
    /\ confirm = [asked |-> TRUE, answer |-> <<" ", "Y", "e", "s">>]
    /\ initial_disk = [dir \in DirsToClean |-> "files"]
    /\ cleanup_disk = [dir \in DirsToClean |->
                          IF dir \in {"slide_images", "test_audio"} THEN "absent" ELSE "files"]

\* C24: every segment, the end segment included, has the frame size
\* 1280x720, and the slide image lies, not larger than the canvas and with
\* offsets >= 0, centred inside the 1280x720 canvas.
C24_UniformFrameSize ==
    /\ \A k \in 1..Len(frame_sizes) : frame_sizes[k] = <<1280, 720>>
    /\ fpc \in {"end", "done"} =>
          /\ processed.canvas = <<1280, 720>>
          /\ \A c \in 1..2 :
                /\ processed.pasted[c] >= 1
                /\ processed.pasted[c] <= slide_img[c]
                /\ processed.offset[c] >= 0
                /\ processed.offset[c] + processed.pasted[c] <= processed.canvas[c]
                /\ processed.canvas[c] - processed.pasted[c] - 2 * processed.offset[c] \in {0, 1}

\* the positions in a list of segments that hold a slide segment
SlidePositions(segments) == {k \in 1..Len(segments) : segments[k].image # 0}

\* C25: the segments are in ascending slide order without repetition, an
\* end segment is the last one, the written video is exactly this list, and
\* segments and synthesizer calls exist only for the slides handled so far,
\* the calls in ascending slide order too.
C25_SegmentsInSlideOrder ==
    /\ \A j, k \in SlidePositions(video_clips) :
          j < k => video_clips[j].image < video_clips[k].image
    /\ \A k \in 1..Len(video_clips) :
          video_clips[k].image = 0 => k = Len(video_clips) /\ apc = "done"
    /\ \A k \in 1..Len(video_clips) : video_clips[k].image <= asm_i
    /\ \A j, k \in 1..Len(synth_calls) :
          (j < k /\ synth_calls[k].image # 0) =>
              /\ synth_calls[j].image # 0
              /\ synth_calls[j].image < synth_calls[k].image
    /\ \A k \in 1..Len(synth_calls) : synth_calls[k].image <= asm_i
    /\ output_video.written => output_video.clips = video_clips

\* a written video of the segments of slide 1 and slide 2 and the end segment
C25_Witness ==
    /\ apc = "done"
    /\ output_video.written
    /\ Len(output_video.clips) = 3
    /\ output_video.clips[1].image = 1
    /\ output_video.clips[2].image = 2
    /\ output_video.clips[3].image = 0

\* C26: a slide whose processing raised has no segment, every other slide
\* handled so far has exactly one, and a finished run went through all the
\* images and, having a segment, on to the concatenation.
C26_SlideFailureIsLocal ==
    /\ errors \subseteq 1..asm_i
    /\ \A n \in errors : SegmentsOf(n) = <<>>
    /\ \A n \in (1..asm_i) \ errors : Len(SegmentsOf(n)) = 1
    /\ (apc = "done" /\ errors # {}) =>
          /\ asm_i = Len(asm_files)
          /\ SlideSegments # <<>> => output_video.write_error # "no_clips"

\* the first of two slides raised, the second gave its segment, and the
\* video with that segment was written
C26_Witness ==
    /\ apc = "done"
    /\ errors = {1}
    /\ asm_i = 2
    /\ Len(SegmentsOf(2)) = 1
    /\ output_video.written
    /\ output_video.clips[1].image = 2

\* C27: once an export mechanism has returned, however it ended, its
\* temporary file (the PowerShell script, the LibreOffice PDF) is no longer
\* on disk.
C27_NoTemporaryFileLeft ==
    /\ (\E k \in 1..Len(attempted) : attempted[k].mech = "powershell") => "ps1" \notin temp_files
    /\ (\E k \in 1..Len(attempted) : attempted[k].mech = "libreoffice") => "pdf" \notin temp_files
    /\ temp_files = {}

\* the trimmed notes of slide n itself, empty when it has none or when the
\* presentation has no slide n
OwnNotes(n) ==
    IF n <= Len(presentation) /\ HasNotes(presentation[n])
    THEN ExpectedTrim(presentation[n].notes.text)
    ELSE <<>>

\* C28: the narration resolved for the slide at position n is the slide's
\* own trimmed notes or none: every synthesis call made for it carries its
\* own notes, and its segment is narrated only with its own notes.
C28_NarrationIsOwnNotes ==
    \A n \in 1..asm_i :
        /\ \A k \in 1..Len(CallsOf(n)) : CallsOf(n)[k].text = OwnNotes(n)
        /\ \A k \in 1..Len(SegmentsOf(n)) :
              SegmentsOf(n)[k].kind = "narrated" => SegmentsOf(n)[k].text = OwnNotes(n)

\* C29: the image handled at loop position n, which is combined with the
\* title and narration of presentation slide n (line 156), is the image
\* whose file name carries the number n.
C29_ImageNumberMatchesSlide ==
    \A n \in 1..asm_i : ExpectedNumber[asm_files[n]] = n

\* C30: when main has returned True, every entry of the expected-output
\* list is on disk: the final video, exported_slides, audio_clips and
\* slide_images.
C30_SuccessMeansOutputsExist ==
    retval = "True" =>
        /\ expected_video \in outputs.videos
        /\ "exported_slides" \in outputs.dirs
        /\ "audio_clips" \in outputs.dirs
        /\ "slide_images" \in outputs.dirs

====
